---- MODULE Spec2Model ----
(***************************************************************************)
(* Model of the TestReporter transform stream of cleaner-spec-reporter     *)
(* (src/src/index.ts).                                                     *)
(*                                                                         *)
(* Representation of JavaScript values:                                    *)
(*   - strings are TLA+ strings; a character outside ASCII is written as   *)
(*     its JavaScript escape, so the cross glyph is the TLA+ string "\\u2716 "; *)
(*   - an optional string that is absent is the reserved string undefined; *)
(*   - a number is an IEEE 754 double, held as the record of an odd m and  *)
(*     of an e with value = m * 2^e, so that 1.5 is m = 3, e = -1; it is   *)
(*     computed with natural numbers of any size, kept as sequences of     *)
(*     limbs; an absent number is undefinedNum and the result of           *)
(*     arithmetic on an absent number is NaN;                              *)
(*   - an optional boolean is one of "true", "false", undefined;           *)
(*   - data.todo (boolean | string) is a record tagged by its typeof.      *)
(***************************************************************************)
EXTENDS Integers, Sequences, FiniteSets, TLC

-----------------------------------------------------------------------------
(* Bounds of the model *)

\* longest execution stack the event source builds
MaxDepth == 2
\* most failure records kept over all buckets
MaxFailures == 2

-----------------------------------------------------------------------------
(* JavaScript values *)

undefined == "<undefined>"

Digit(d) == SubSeq("0123456789", d + 1, d + 1)

RECURSIVE NatToString(_)
NatToString(n) == IF n < 10 THEN Digit(n) ELSE NatToString(n \div 10) \o Digit(n % 10)

-----------------------------------------------------------------------------
(* Strings *)

CharAt(s, i) == SubSeq(s, i, i)

StartsWithAt(s, i, prefix) ==
  /\ i + Len(prefix) - 1 <= Len(s)
  /\ SubSeq(s, i, i + Len(prefix) - 1) = prefix

\* String.prototype.endsWith
EndsWith(s, suffix) ==
  /\ Len(suffix) <= Len(s)
  /\ SubSeq(s, Len(s) - Len(suffix) + 1, Len(s)) = suffix

\* s occurs in t
Contains(t, s) == \E i \in 1..(Len(t) + 1) : StartsWithAt(t, i, s)

IsDigit(c) == c \in {"0", "1", "2", "3", "4", "5", "6", "7", "8", "9"}

\* \s of a regular expression, on the characters the model uses
IsSpace(c) == c \in {" ", "\t", "\n", "\r", "\f"}

\* value of a run of decimal digits
RECURSIVE DigitsValue(_)
DigitsValue(s) ==
  IF s = "" THEN 0
  ELSE LET c == CharAt(s, Len(s))
           d == CHOOSE k \in 0..9 : Digit(k) = c
       IN DigitsValue(SubSeq(s, 1, Len(s) - 1)) * 10 + d

\* first index >= i of s whose character is no digit, Len(s) + 1 when none
SkipDigits(s, i) ==
  IF i > Len(s) THEN i
  ELSE CHOOSE j \in i..(Len(s) + 1) :
         /\ j = Len(s) + 1 \/ ~IsDigit(CharAt(s, j))
         /\ \A k \in i..(j - 1) : IsDigit(CharAt(s, k))

\* first index >= i of s whose character is no space, Len(s) + 1 when none
SkipSpaces(s, i) ==
  IF i > Len(s) THEN i
  ELSE CHOOSE j \in i..(Len(s) + 1) :
         /\ j = Len(s) + 1 \/ ~IsSpace(CharAt(s, j))
         /\ \A k \in i..(j - 1) : IsSpace(CharAt(s, k))

\* Array.prototype.join
RECURSIVE Join(_, _)
Join(array, separator) ==
  IF Len(array) = 0 THEN ""
  ELSE IF Len(array) = 1 THEN array[1]
  ELSE array[1] \o separator \o Join(Tail(array), separator)

\* String.prototype.split on a one-character separator
RECURSIVE SplitFrom(_, _, _, _)
SplitFrom(s, sep, i, start) ==
  IF i > Len(s) THEN << SubSeq(s, start, Len(s)) >>
  ELSE IF CharAt(s, i) = sep
       THEN << SubSeq(s, start, i - 1) >> \o SplitFrom(s, sep, i + 1, i + 1)
       ELSE SplitFrom(s, sep, i + 1, start)

Split(s, sep) == SplitFrom(s, sep, 1, 1)

\* the path stripped of its directory
Basename(path) ==
  LET parts == Split(path, "/") IN parts[Len(parts)]

-----------------------------------------------------------------------------
(* Natural numbers of any size: the limbs of the number in base Base, the   *)
(* lowest first, without a zero limb at the high end; << >> is 0            *)

LimbBits == 15
Base == 2^LimbBits

Min(a, b) == IF a <= b THEN a ELSE b

Max(a, b) == IF a >= b THEN a ELSE b

Zeros(n) == [ i \in 1..n |-> 0 ]

Limb(a, i) == IF i <= Len(a) THEN a[i] ELSE 0

\* a without the zero limbs at its high end
Trim(a) ==
  IF Len(a) = 0 \/ a[Len(a)] # 0 THEN a
  ELSE LET used == { i \in 1..Len(a) : a[i] # 0 }
       IN IF used = {} THEN << >>
          ELSE SubSeq(a, 1, CHOOSE i \in used : \A j \in used : j <= i)

\* the limbs of a number TLA+ holds as an integer
BigFromInt(n) == Trim(<< n % Base, (n \div Base) % Base, n \div (Base * Base) >>)

BigIsOdd(a) == Len(a) > 0 /\ a[1] % 2 = 1

\* the limbs from..to of a + b + carry, and the carry out of them
RECURSIVE AddLimbs(_, _, _, _, _)
AddLimbs(a, b, from, to, carry) ==
  IF from > to THEN [ limbs |-> << >>, carry |-> carry ]
  ELSE IF from = to
  THEN LET sum == Limb(a, from) + Limb(b, from) + carry
       IN [ limbs |-> << sum % Base >>, carry |-> sum \div Base ]
  ELSE LET middle == (from + to) \div 2
           low == AddLimbs(a, b, from, middle, carry)
           high == AddLimbs(a, b, middle + 1, to, low.carry)
       IN [ limbs |-> low.limbs \o high.limbs, carry |-> high.carry ]

\* a + b + carry
BigAdd(a, b, carry) ==
  LET WithCarry(sum) == IF sum.carry = 0 THEN sum.limbs ELSE sum.limbs \o << sum.carry >>
  IN WithCarry(AddLimbs(a, b, 1, Max(Len(a), Len(b)), carry))

\* the limbs from..to of a * k + carry, and the carry out of them
RECURSIVE MulLimbs(_, _, _, _, _)
MulLimbs(a, k, from, to, carry) ==
  IF from > to THEN [ limbs |-> << >>, carry |-> carry ]
  ELSE IF from = to
  THEN LET product == a[from] * k + carry
       IN [ limbs |-> << product % Base >>, carry |-> product \div Base ]
  ELSE LET middle == (from + to) \div 2
           low == MulLimbs(a, k, from, middle, carry)
           high == MulLimbs(a, k, middle + 1, to, low.carry)
       IN [ limbs |-> low.limbs \o high.limbs, carry |-> high.carry ]

\* a * k + carry, for k in 1..Base - 1 and carry below Base
BigMulSmall(a, k, carry) ==
  LET WithCarry(product) ==
        IF product.carry = 0 THEN product.limbs ELSE product.limbs \o << product.carry >>
  IN WithCarry(MulLimbs(a, k, 1, Len(a), carry))

Reverse(a) == [ i \in 1..Len(a) |-> a[Len(a) + 1 - i] ]

\* long division by d of the limbs to, to - 1 .. from of a, with r left from
\* the limbs above them: the limbs of the quotient, the highest first, and
\* the remainder
RECURSIVE DivLimbs(_, _, _, _, _)
DivLimbs(a, d, from, to, r) ==
  IF from > to THEN [ limbs |-> << >>, r |-> r ]
  ELSE IF from = to
  THEN LET current == r * Base + a[from]
       IN [ limbs |-> << current \div d >>, r |-> current % d ]
  ELSE LET middle == (from + to) \div 2
           high == DivLimbs(a, d, middle + 1, to, r)
           low == DivLimbs(a, d, from, middle, high.r)
       IN [ limbs |-> high.limbs \o low.limbs, r |-> low.r ]

\* quotient and remainder of a by d in 1..Base - 1
BigDivSmall(a, d) ==
  LET Result(division) == [ q |-> Trim(Reverse(division.limbs)), r |-> division.r ]
  IN Result(DivLimbs(a, d, 1, Len(a), 0))

\* -1, 0 or 1 as a is below, equal to or above b
BigCmp(a, b) ==
  IF Len(a) # Len(b) THEN (IF Len(a) < Len(b) THEN -1 ELSE 1)
  ELSE LET differ == { i \in 1..Len(a) : a[i] # b[i] }
       IN IF differ = {} THEN 0
          ELSE LET top == CHOOSE i \in differ : \A j \in differ : j <= i
               IN IF a[top] < b[top] THEN -1 ELSE 1

\* number of bits of a, 0 for 0
BitLen(a) ==
  IF Len(a) = 0 THEN 0
  ELSE LimbBits * (Len(a) - 1)
         + (CHOOSE n \in 1..LimbBits : a[Len(a)] < 2^n /\ a[Len(a)] >= 2^(n - 1))

\* a * 2^n
BigShiftLeft(a, n) ==
  IF Len(a) = 0 THEN a
  ELSE Zeros(n \div LimbBits) \o BigMulSmall(a, 2^(n % LimbBits), 0)

\* a \div 2^n as q and a % 2^n as low
BigShiftRight(a, n) ==
  LET limbs == Min(n \div LimbBits, Len(a))
      Result(division) ==
        [ q |-> division.q, low |-> Trim(SubSeq(a, 1, limbs) \o << division.r >>) ]
  IN Result(BigDivSmall(SubSeq(a, limbs + 1, Len(a)), 2^(n % LimbBits)))

\* a * 5^k
RECURSIVE BigMulPow5(_, _)
BigMulPow5(a, k) ==
  IF k <= 6 THEN BigMulSmall(a, 5^k, 0)
  ELSE LET first == 6 * ((k + 11) \div 12)
           high == BigMulPow5(a, first)
       IN IF Len(high) = 0 THEN high ELSE BigMulPow5(high, k - first)

\* a \div 5^k as q, and whether a remainder was left as sticky
RECURSIVE BigDivPow5(_, _)
BigDivPow5(a, k) ==
  IF k <= 6
  THEN LET Result(division) == [ q |-> division.q, sticky |-> division.r # 0 ]
       IN Result(BigDivSmall(a, 5^k))
  ELSE LET first == 6 * ((k + 11) \div 12)
           high == BigDivPow5(a, first)
       IN IF Len(high.q) = 0 THEN high
          ELSE LET low == BigDivPow5(high.q, k - first)
               IN [ q |-> low.q, sticky |-> high.sticky \/ low.sticky ]

\* the value of a run of decimal digits
RECURSIVE BigFromDecimal(_)
BigFromDecimal(s) ==
  IF Len(s) <= 4 THEN BigFromInt(DigitsValue(s))
  ELSE LET right == Len(s) \div 2
           high == BigFromDecimal(SubSeq(s, 1, Len(s) - right))
           low == BigFromDecimal(SubSeq(s, Len(s) - right + 1, Len(s)))
       IN IF Len(high) = 0 THEN low
          ELSE BigAdd(BigShiftLeft(BigMulPow5(high, right), right), low, 0)

\* a \div 10^(4 * steps) as q and, as text, the 4 * steps decimal digits of
\* a under it, or all the digits of a when q is 0
RECURSIVE DecimalChunks(_, _)
DecimalChunks(a, steps) ==
  IF steps = 1
  THEN LET Result(division) ==
             [ q |-> division.q,
               text |-> (IF Len(division.q) = 0 \/ division.r >= 1000 THEN ""
                         ELSE IF division.r >= 100 THEN "0"
                         ELSE IF division.r >= 10 THEN "00" ELSE "000")
                          \o NatToString(division.r) ]
       IN Result(BigDivSmall(a, 10000))
  ELSE LET low == DecimalChunks(a, steps \div 2)
       IN IF Len(low.q) = 0 THEN low
          ELSE LET high == DecimalChunks(low.q, steps - steps \div 2)
               IN [ q |-> high.q, text |-> high.text \o low.text ]

\* the decimal digits of a, "0" for 0: there are at most 0.30103 * BitLen(a) + 1
BigToDecimal(a) ==
  IF Len(a) = 0 THEN "0"
  ELSE DecimalChunks(a, (BitLen(a) * 30103) \div 400000 + 1).text

-----------------------------------------------------------------------------
(* The Number type: an IEEE 754 double that is not negative, as the record  *)
(* of its kind and, when it is finite, of the odd m and the e with          *)
(* value = m * 2^e (m = << >> and e = 0 for 0); undefinedNum is the value   *)
(* of a number that is absent.  A definition names a value it reads more    *)
(* than once as the parameter of a local operator.                          *)

undefinedNum == [ kind |-> "undefined", m |-> << >>, e |-> 0 ]
NaN == [ kind |-> "NaN", m |-> << >>, e |-> 0 ]
Infinity == [ kind |-> "Infinity", m |-> << >>, e |-> 0 ]
Zero == [ kind |-> "finite", m |-> << >>, e |-> 0 ]

IsFinite(n) == n.kind = "finite"

\* neither undefined nor NaN
IsNumber(n) == n.kind \in { "finite", "Infinity" }

\* the double M * 2^E, which is known to fit
Finite(M, E) ==
  IF Len(M) = 0 THEN [ kind |-> "finite", m |-> << >>, e |-> 0 ]
  ELSE LET limbs == CHOOSE k \in 0..(Len(M) - 1) : M[k + 1] # 0 /\ \A i \in 1..k : M[i] = 0
           bits == CHOOSE n \in 0..(LimbBits - 1) :
                     M[limbs + 1] % 2^n = 0 /\ (M[limbs + 1] \div 2^n) % 2 = 1
       IN [ kind |-> "finite",
            m |-> BigDivSmall(SubSeq(M, limbs + 1, Len(M)), 2^bits).q,
            e |-> E + LimbBits * limbs + bits ]

\* a whole number TLA+ holds as an integer
Num(n) ==
  IF n = 0 THEN [ kind |-> "finite", m |-> << >>, e |-> 0 ]
  ELSE LET bits == CHOOSE k \in 0..30 : n % 2^k = 0 /\ (n \div 2^k) % 2 = 1
       IN [ kind |-> "finite", m |-> BigFromInt(n \div 2^bits), e |-> bits ]

\* the double nearest to a value v with M * 2^E <= v < (M + 1) * 2^E, where
\* sticky tells that v is above M * 2^E (M then has 55 bits or more): 53
\* bits are kept, fewer under 2^-1022, a tie goes to the even neighbour
RoundToDouble(M, E, sticky) ==
  LET length == BitLen(M)
      kept == Min(53, length + E + 1074)
      drop == length - kept
      \* half of shifted, raised when the bits dropped are above the half of
      \* the last bit kept, or are that half and the last bit kept is 1
      Halved(shifted) ==
        BigAdd(BigDivSmall(shifted.q, 2).q, << >>,
               IF /\ BigIsOdd(shifted.q)
                  /\ (sticky \/ Len(shifted.low) > 0 \/ shifted.q[1] % 4 = 3)
               THEN 1 ELSE 0)
      Fitted(rounded, exponent) ==
        IF BitLen(rounded) + exponent > 1024 THEN Infinity ELSE Finite(rounded, exponent)
  IN IF Len(M) = 0 \/ kept < 0 THEN Zero
     ELSE Fitted(IF drop <= 0 THEN M ELSE Halved(BigShiftRight(M, drop - 1)),
                 IF drop <= 0 THEN E ELSE E + drop)

\* the double nearest to S * 10^q
ToDouble(S, q) ==
  LET bits == 3 * (-q) + 56
      Rounded(division, exponent) == RoundToDouble(division.q, exponent, division.sticky)
  IN IF Len(S) = 0 THEN Zero
     ELSE Rounded(IF q >= 0 THEN [ q |-> BigMulPow5(S, q), sticky |-> FALSE ]
                  ELSE BigDivPow5(BigShiftLeft(S, bits), -q),
                  IF q >= 0 THEN q ELSE q - bits)

\* -1, 0 or 1 as the finite a is below, equal to or above the finite b
Compare(a, b) ==
  IF Len(a.m) = 0 \/ Len(b.m) = 0
  THEN (IF Len(a.m) = Len(b.m) THEN 0 ELSE IF Len(a.m) = 0 THEN -1 ELSE 1)
  ELSE LET low == Min(a.e, b.e)
           Ordered(highA, highB) ==
             IF highA # highB THEN (IF highA < highB THEN -1 ELSE 1)
             ELSE BigCmp(BigShiftLeft(a.m, a.e - low), BigShiftLeft(b.m, b.e - low))
       IN Ordered(BitLen(a.m) + a.e, BitLen(b.m) + b.e)

\* a > b of JavaScript: false as soon as one side is undefined or NaN
Gt(a, b) ==
  /\ a.kind \in { "finite", "Infinity" } /\ b.kind \in { "finite", "Infinity" }
  /\ IF a.kind = "finite" /\ b.kind = "finite" THEN Compare(a, b) = 1 ELSE b.kind = "finite"

\* a < b of JavaScript
Lt(a, b) == Gt(b, a)

\* a >= b of JavaScript
Ge(a, b) == IsNumber(a) /\ IsNumber(b) /\ ~Gt(b, a)

\* a === b of JavaScript on two numbers
StrictEquals(a, b) == IsNumber(a) /\ a = b

\* a + b of JavaScript on the values the counters can hold
Add(a, b) ==
  IF ~IsNumber(a) \/ ~IsNumber(b) THEN NaN
  ELSE IF ~IsFinite(a) \/ ~IsFinite(b) THEN Infinity
  ELSE LET low == Min(a.e, b.e)
       IN RoundToDouble(BigAdd(BigShiftLeft(a.m, a.e - low), BigShiftLeft(b.m, b.e - low), 0),
                        low, FALSE)

\* a / d of JavaScript for a whole d in 1..Base - 1
Divide(a, d) ==
  LET Rounded(division) == RoundToDouble(division.q, a.e - 70, division.r # 0)
  IN IF ~IsNumber(a) THEN NaN
     ELSE IF ~IsFinite(a) THEN Infinity
     ELSE Rounded(BigDivSmall(BigShiftLeft(a.m, 70), d))

\* 2^n % d for d below Base
RECURSIVE PowerOfTwoMod(_, _)
PowerOfTwoMod(n, d) ==
  IF n < LimbBits THEN 2^n % d
  ELSE LET root == PowerOfTwoMod(n \div 2, d)
       IN (((root * root) % d) * (IF n % 2 = 1 THEN 2 ELSE 1)) % d

\* a % d of JavaScript for a whole d in 1..Base - 1: the remainder is exact
Remainder(a, d) ==
  LET \* of the whole part parts.q and the fraction parts.low * 2^a.e
      Rest(parts) ==
        Finite(BigAdd(BigShiftLeft(BigFromInt(BigDivSmall(parts.q, d).r), -a.e), parts.low, 0),
               a.e)
  IN IF ~IsFinite(a) THEN NaN
     ELSE IF a.e >= 0
     THEN Num((BigDivSmall(a.m, d).r * PowerOfTwoMod(a.e, d)) % d)
     ELSE Rest(BigShiftRight(a.m, -a.e))

\* Math.floor
MathFloor(a) ==
  IF ~IsNumber(a) THEN NaN
  ELSE IF ~IsFinite(a) \/ a.e >= 0 THEN a
  ELSE Finite(BigShiftRight(a.m, -a.e).q, 0)

\* a * 10^digits to the nearest whole number, the higher of two
ScaledAndRounded(a, digits) ==
  LET Halved(shifted) ==
        BigAdd(BigDivSmall(shifted.q, 2).q, << >>, IF BigIsOdd(shifted.q) THEN 1 ELSE 0)
      Shifted(scaled) ==
        IF a.e >= 0 THEN BigShiftLeft(scaled, a.e)
        ELSE Halved(BigShiftRight(scaled, -a.e - 1))
  IN Shifted(BigMulSmall(a.m, 10^digits, 0))

\* Math.round
MathRound(a) ==
  IF ~IsNumber(a) THEN NaN
  ELSE IF ~IsFinite(a) \/ a.e >= 0 THEN a
  ELSE Finite(ScaledAndRounded(a, 0), 0)

RECURSIVE StripZeros(_)
StripZeros(s) ==
  IF Len(s) > 1 /\ CharAt(s, Len(s)) = "0" THEN StripZeros(SubSeq(s, 1, Len(s) - 1)) ELSE s

RECURSIVE Repeat(_, _)
Repeat(s, n) == IF n <= 0 THEN "" ELSE s \o Repeat(s, n - 1)

\* whether the decimal of the first k digits of D, or the next decimal of k
\* digits above it, is read back as x.  D holds every digit of x and
\* x = D * 10^q0
ReadsBack(x, D, q0, k, above) ==
  x = ToDouble(BigAdd(BigFromDecimal(SubSeq(D, 1, k)), << >>, IF above THEN 1 ELSE 0),
               q0 + Len(D) - k)

\* the fewest digits that name the double x among the doubles, 17 at most:
\* the first k for which a decimal of k digits next to x is read back as x,
\* and of the two decimals the nearer to x when both are, the even one when
\* they are as near
FewestDigits(x, D, q0) ==
  LET most == Min(Len(D), 17)
      \* found holds << k, above >> when that decimal is read back as x
      Chosen(found) ==
        LET lengths == { p[1] : p \in found }
            k == CHOOSE i \in lengths : \A j \in lengths : i <= j
            below == SubSeq(D, 1, k)
            next == DigitsValue(CharAt(D, k + 1))
            tie == next = 5 /\ StripZeros(SubSeq(D, k + 1, Len(D))) = "5"
            belowIsNearer == next < 5 \/ (tie /\ DigitsValue(CharAt(D, k)) % 2 = 0)
        IN IF k = Len(D) \/ (<< k, FALSE >> \in found
                             /\ (belowIsNearer \/ << k, TRUE >> \notin found))
           THEN [ digits |-> below, q |-> q0 + Len(D) - k ]
           ELSE [ digits |-> BigToDecimal(BigAdd(BigFromDecimal(below), << >>, 1)),
                  q |-> q0 + Len(D) - k ]
  IN Chosen({ p \in (1..most) \X BOOLEAN : ReadsBack(x, D, q0, p[1], p[2]) })

\* Number::toString of a finite number above 0
FiniteToString(x) ==
  LET Formatted(found) ==
        LET digits == StripZeros(found.digits)
            k == Len(digits)
            n == Len(found.digits) + found.q
        IN IF k <= n /\ n <= 21 THEN digits \o Repeat("0", n - k)
           ELSE IF 0 < n /\ n <= 21 THEN SubSeq(digits, 1, n) \o "." \o SubSeq(digits, n + 1, k)
           ELSE IF -6 < n /\ n <= 0 THEN "0." \o Repeat("0", -n) \o digits
           ELSE (IF k = 1 THEN digits ELSE SubSeq(digits, 1, 1) \o "." \o SubSeq(digits, 2, k))
                  \o (IF n - 1 < 0 THEN "e-" ELSE "e+")
                  \o NatToString(IF n - 1 < 0 THEN 1 - n ELSE n - 1)
  IN Formatted(FewestDigits(x,
                            BigToDecimal(IF x.e >= 0 THEN BigShiftLeft(x.m, x.e)
                                         ELSE BigMulPow5(x.m, -x.e)),
                            Min(x.e, 0)))

\* `${number}` of a template literal
NumberToString(n) ==
  IF n.kind # "finite" THEN n.kind
  ELSE IF Len(n.m) = 0 THEN "0"
  ELSE FiniteToString(n)

\* Number.prototype.toFixed(digits) for digits in 0..4; a number of 10^21
\* (5^21 * 2^21) or more is printed as by toString
ToFixed(n, digits) ==
  LET Pointed(all) ==
        LET padded == Repeat("0", digits + 1 - Len(all)) \o all
        IN IF digits = 0 THEN all
           ELSE SubSeq(padded, 1, Len(padded) - digits) \o "."
                  \o SubSeq(padded, Len(padded) - digits + 1, Len(padded))
  IN IF ~IsFinite(n) \/ Ge(n, [ kind |-> "finite", m |-> BigMulPow5(<< 1 >>, 21), e |-> 21 ])
     THEN NumberToString(n)
     ELSE Pointed(BigToDecimal(ScaledAndRounded(n, digits)))

-----------------------------------------------------------------------------
(* Module-level constants and helpers of src/src/index.ts *)

\* parseFloat of a run of digits with an optional fraction: the double
\* nearest to the decimal
parseFloat(s) ==
  LET dot == SkipDigits(s, 1)
      fraction == SubSeq(s, dot + 1, Len(s))
  IN ToDouble(BigFromDecimal(SubSeq(s, 1, dot - 1) \o fraction), -Len(fraction))

\* parseInt(string of digits, 10)
parseInt(s) == ToDouble(BigFromDecimal(s), 0)

\* message.match(SUBTESTS_FAILED)?.[1], undefined when there is no match
SUBTESTS_FAILED(message) ==
  IF message = undefined THEN undefined
  ELSE LET j == SkipDigits(message, 1)
           rest == SubSeq(message, j, Len(message))
       IN IF j > 1 /\ rest \in {" subtest failed", " subtests failed"}
          THEN SubSeq(message, 1, j - 1)
          ELSE undefined

\* a capture of (.+): at least one character, none a line terminator
IsDotPlus(s) ==
  /\ Len(s) > 0
  /\ \A k \in 1..Len(s) : CharAt(s, k) \notin {"\n", "\r"}

\* message.match(FAILED_HOOK_MATCHER)?.[1], undefined when there is no match
FAILED_HOOK_MATCHER(message) ==
  IF message = undefined THEN undefined
  ELSE LET head == "failed running "
           tail == " hook"
           Ends(i) == { j \in (i + Len(head))..Len(message) :
                          /\ StartsWithAt(message, j + 1, tail)
                          /\ IsDotPlus(SubSeq(message, i + Len(head), j)) }
           Starts == { i \in 1..Len(message) :
                          StartsWithAt(message, i, head) /\ Ends(i) # {} }
       IN IF Starts = {} THEN undefined
          ELSE LET i == CHOOSE x \in Starts : \A y \in Starts : x <= y
                   j == CHOOSE x \in Ends(i) : \A y \in Ends(i) : x >= y
               IN SubSeq(message, i + Len(head), j)

CounterNames ==
  << "tests", "suites", "pass", "fail", "cancelled", "skipped", "todo", "duration_ms" >>

\* end of the match of \s+(\d+(\.\d+)?) that starts at index i, 0 when none
NumberEnd(message, i) ==
  LET d == SkipSpaces(message, i)
      e == SkipDigits(message, d)
      f == IF e <= Len(message) /\ CharAt(message, e) = "." THEN SkipDigits(message, e + 1) ELSE e
  IN IF d = i \/ e = d THEN 0
     ELSE IF f > e + 1 THEN f - 1
     ELSE e - 1

\* message.match(SUMMARY_MATCHER): << mo[1], mo[2] >>, << >> when there is no match
SUMMARY_MATCHER(message) ==
  IF message = undefined THEN << >>
  ELSE LET Hit(i, k) == /\ StartsWithAt(message, i, CounterNames[k])
                        /\ NumberEnd(message, i + Len(CounterNames[k])) # 0
           Starts == { i \in 1..Len(message) : \E k \in 1..Len(CounterNames) : Hit(i, k) }
       IN IF Starts = {} THEN << >>
          ELSE LET i == CHOOSE x \in Starts : \A y \in Starts : x <= y
                   k == CHOOSE x \in 1..Len(CounterNames) : Hit(i, x)
                   from == i + Len(CounterNames[k])
               IN << CounterNames[k],
                     SubSeq(message, SkipSpaces(message, from), NumberEnd(message, from)) >>

pastBeingVerb(count) == IF StrictEquals(count, Num(1)) THEN "was" ELSE "were"

pluralize(word, count) ==
  LET Plural(one) == Gt(count, one) \/ (Gt(count, Zero) /\ Lt(count, one))
  IN word \o (IF Plural(Num(1)) THEN "s" ELSE "")

\* niceJoin that puts the separator before the last item of three or more
niceJoin_SeparatorForLast(array, lastSeparator, separator) ==
  CASE Len(array) = 0 -> ""
    [] Len(array) = 1 -> array[1]
    [] Len(array) = 2 -> Join(array, lastSeparator)
    [] OTHER -> Join(array, separator)

niceJoin(array, lastSeparator, separator) ==
  CASE Len(array) = 0 -> ""
    [] Len(array) = 1 -> array[1]
    [] Len(array) = 2 -> Join(array, lastSeparator)
    [] OTHER -> Join(SubSeq(array, 1, Len(array) - 1), separator)
                  \o lastSeparator \o array[Len(array)]

\* formatDuration that prints the minutes whenever it printed the hours
formatDuration_MinutesAfterHours(duration) ==
  LET \* one item of the message: `${count} ${pluralize(unit, count)}`
      Part(count, unit) == << NumberToString(count) \o " " \o pluralize(unit, count) >>
      \* line 64, on what lines 52-62 left of the duration
      Seconds(d, message) ==
        niceJoin(message
                   \o << ToFixed(d, IF ~StrictEquals(MathRound(d), d) THEN 3 ELSE 0)
                           \o " " \o pluralize("second", d) >>,
                 " and ", ", ")
      \* lines 58-62
      Minutes(d, message, afterHours) ==
        Seconds(IF afterHours \/ Ge(d, Num(60)) THEN Remainder(d, 60) ELSE d,
                message \o (IF afterHours \/ Ge(d, Num(60))
                            THEN Part(MathFloor(Divide(d, 60)), "minute") ELSE << >>))
      \* lines 52-56
      Hours(d) ==
        Minutes(IF Ge(d, Num(3600)) THEN Remainder(d, 3600) ELSE d,
                IF Ge(d, Num(3600)) THEN Part(MathFloor(Divide(d, 3600)), "hour") ELSE << >>, Ge(d, Num(3600)))
  IN Hours(Divide(duration, 1000))

formatDuration(duration) ==
  LET \* one item of the message: `${count} ${pluralize(unit, count)}`
      Part(count, unit) == << NumberToString(count) \o " " \o pluralize(unit, count) >>
      \* line 64, on what lines 52-62 left of the duration
      Seconds(d, message) ==
        niceJoin(message
                   \o << ToFixed(d, IF ~StrictEquals(MathRound(d), d) THEN 3 ELSE 0)
                           \o " " \o pluralize("second", d) >>,
                 " and ", ", ")
      \* lines 58-62
      Minutes(d, message) ==
        Seconds(IF Ge(d, Num(60)) THEN Remainder(d, 60) ELSE d,
                message \o (IF Ge(d, Num(60))
                            THEN Part(MathFloor(Divide(d, 60)), "minute") ELSE << >>))
      \* lines 52-56
      Hours(d) ==
        Minutes(IF Ge(d, Num(3600)) THEN Remainder(d, 3600) ELSE d,
                IF Ge(d, Num(3600)) THEN Part(MathFloor(Divide(d, 3600)), "hour") ELSE << >>)
  IN Hours(Divide(duration, 1000))

\* the segments of an absolute path
PathParts(path) == SelectSeq(Split(path, "/"), LAMBDA part : part # "")

RECURSIVE CommonPrefix(_, _)
CommonPrefix(a, b) ==
  IF Len(a) = 0 \/ Len(b) = 0 \/ a[1] # b[1] THEN 0
  ELSE 1 + CommonPrefix(Tail(a), Tail(b))

\* path.relative(from, to) of node:path on absolute, normalized POSIX paths
relative(from, to) ==
  LET a == PathParts(from)
      b == PathParts(to)
      k == CommonPrefix(a, b)
      ups == [ i \in 1..(Len(a) - k) |-> ".." ]
  IN Join(ups \o SubSeq(b, k + 1, Len(b)), "/")

-----------------------------------------------------------------------------
(* class TestReporter: static tables *)

symbols ==
  [ fail |-> "\\u2716 ", pass |-> "\\u2714 ", diagnostic |-> "\\u2139 ",
    coverage |-> "\\u2139 ", rightArrow |-> "\\u25B6 ", hyphen |-> "\\uFE63 ",
    verticalBar |-> "\\u2502" ]

TestReporter_colors ==
  [ blue |-> "\\u001b[34m", green |-> "\\u001b[32m", white |-> "\\u001b[39m",
    yellow |-> "\\u001b[33m", red |-> "\\u001b[31m", gray |-> "\\u001b[90m",
    clear |-> "\\u001bc", bold |-> "\\u001b[1m", normal |-> "\\u001b[22m",
    reset |-> "\\u001b[0m" ]

\* Object.fromEntries(Object.keys(TestReporter.colors).map(key => [key, '']))
NoColors == [ key \in DOMAIN TestReporter_colors |-> "" ]

-----------------------------------------------------------------------------
(* State of one TestReporter instance *)

VARIABLES
  cwd,              \* #cwd: the base directory
  colors,           \* #colors: the colour table chosen by the constructor
  success,          \* #success: "true", "false" or undefined
  counters,         \* #counters: counter name -> number, undefinedNum when not set
  files,            \* #files: the set of enqueued files
  failures,         \* #failures: the Map, as the sequence of its entries in key order
  executing,        \* #executing: the stack of the names of the running tests
  nesting,          \* #nesting: the nesting of the last test event
  currentFile,      \* #currentFile
  diagnosticShown,  \* #diagnosticShown
  phase,            \* "open", "flushed", or "aborted" once a handler has thrown
  last,             \* the event handed to _transform last (type "none" before the first, "flush" for _flush)
  out,              \* the data the last callback pushed downstream
  before,           \* the fields as they were when the last event was handed over
  started,          \* a test:start that is not of a file has been handed over
  profile,          \* the vocabulary of the event source of this run
  args,             \* the arguments of a call of an exported helper, << >> when none is called
  result,           \* what the call of the helper returned
  arrived,          \* file, name and line of the test:fail events of tests so far, each with the stack it met
  shownFailing,     \* the files of the test:fail events that were rendered so far
  running           \* the names of the tests that the source has started and not ended, outermost first

vars == << cwd, colors, success, counters, files, failures, executing, nesting,
           currentFile, diagnosticShown, phase, last, out, before, started, profile,
           args, result, arrived, shownFailing, running >>

\* the fields of the instance that the handlers write
Fields ==
  [ success |-> success, counters |-> counters, files |-> files, failures |-> failures,
    executing |-> executing, nesting |-> nesting, currentFile |-> currentFile,
    diagnosticShown |-> diagnosticShown ]

Truthy(string) == string # undefined /\ string # ""

\* #indent(level = 0, absolute = false, useSymbol = true), with the stack it reads
indent(stack, level, absolute, useSymbol) ==
  LET verticalBar == IF useSymbol /\ colors.gray # "" THEN symbols.verticalBar ELSE " "
      length == ((IF absolute THEN 0 ELSE Len(stack)) + level) * 2
      indentation ==
        IF level = 0 /\ absolute THEN verticalBar
        ELSE Join([ i \in 1..length |-> IF (i - 1) % 2 = 0 THEN verticalBar ELSE " " ], "")
  IN colors.gray \o indentation \o colors.reset

\* #isFile comparing the name with the basename of the file
isFile_Basename(data) == Truthy(data.file) /\ Basename(data.file) = data.name

\* #isFile comparing the name with the whole path of the file
isFile_WholePath(data) == Truthy(data.file) /\ data.file = data.name

\* #isFile that takes no event for the event of a file
isFile_Never(data) == FALSE

\* #isFile
isFile(data) == Truthy(data.file) /\ EndsWith(data.file, data.name)

\* #getFullTestName forgetting the stack
getFullTestName_NameOnly(stack, data) == data.name

\* #getFullTestName, with the stack it reads
getFullTestName(stack, data) ==
  Join(Append(stack, data.name), " " \o symbols.rightArrow)

\* #getTimeoutErrorValue without the default for a message that does not match
getTimeoutErrorValue_NoDefault(error) ==
  LET head == "test timed out after "
      message == error.message
      end == SkipDigits(message, Len(head) + 1)
      mo == IF /\ message # undefined
               /\ StartsWithAt(message, 1, head)
               /\ end > Len(head) + 1
               /\ SubSeq(message, end, Len(message)) = "ms"
            THEN SubSeq(message, Len(head) + 1, end - 1)
            ELSE undefined
  IN IF mo = undefined THEN NaN ELSE parseInt(mo)

\* #getTimeoutErrorValue
getTimeoutErrorValue(error) ==
  LET head == "test timed out after "
      message == error.message
      end == SkipDigits(message, Len(head) + 1)
      mo == IF /\ message # undefined
               /\ StartsWithAt(message, 1, head)
               /\ end > Len(head) + 1
               /\ SubSeq(message, end, Len(message)) = "ms"
            THEN SubSeq(message, Len(head) + 1, end - 1)
            ELSE undefined
  IN parseInt(IF mo = undefined THEN "0" ELSE mo)

\* Error.prototype.toString of an instance of Error
ErrorToString(error) == IF error.message = "" THEN "Error" ELSE "Error: " \o error.message

\* String.prototype.indexOf(s, position): the first index, counted from 0
\* and not below position, at which s occurs in t; -1 when there is none
indexOf(t, s, position) ==
  LET first == IF position < 0 THEN 0 ELSE IF position > Len(t) THEN Len(t) ELSE position
      found == { i \in first..Len(t) : StartsWithAt(t, i + 1, s) }
  IN IF found = {} THEN -1 ELSE CHOOSE i \in found : \A j \in found : i <= j

\* util.inspect of a cause that is not a string: undefined prints as
\* 'undefined'; an Error without own enumerable properties prints as its
\* stack, or as its name and message when the stack is empty.  The text is
\* put in brackets when no line of a frame follows the message in it:
\* pos = (err.message && stack.indexOf(err.message)) || -1, moved past the
\* message unless it is -1, and the frame is looked for from pos on
inspect(cause) ==
  IF cause.type = "error"
  THEN LET stack == IF cause.value = "" THEN ErrorToString(cause) ELSE cause.value
           at == IF cause.message = "" THEN -1 ELSE indexOf(stack, cause.message, 0)
           pos == IF at = 0 \/ at = -1 THEN -1 ELSE at + Len(cause.message)
       IN IF indexOf(stack, "\n    at", pos) = -1 THEN "[" \o stack \o "]" ELSE stack
  ELSE "undefined"

\* error.split(/\r?\n/).join('\n')
RECURSIVE NormalizeNewlines(_)
NormalizeNewlines(s) ==
  IF Len(s) = 0 THEN ""
  ELSE IF StartsWithAt(s, 1, "\r\n") THEN "\n" \o NormalizeNewlines(SubSeq(s, 3, Len(s)))
  ELSE CharAt(s, 1) \o NormalizeNewlines(SubSeq(s, 2, Len(s)))

\* formatted.replaceAll(/(^.)/gm, `${indentation}$1`), from index i on
RECURSIVE PrefixLines(_, _, _)
PrefixLines(s, i, indentation) ==
  IF i > Len(s) THEN ""
  ELSE LET atLineStart == i = 1 \/ CharAt(s, i - 1) \in {"\n", "\r"}
           isTerminator == CharAt(s, i) \in {"\n", "\r"}
       IN (IF atLineStart /\ ~isTerminator THEN indentation ELSE "")
            \o CharAt(s, i) \o PrefixLines(s, i + 1, indentation)

\* #formatError, with the stack it reads
formatError(stack, cause) ==
  LET indentation == indent(stack, 2, FALSE, TRUE)
      error == IF cause.type # "string" THEN inspect(cause) ELSE cause.value
      formatted == NormalizeNewlines(error) \o "\n"
  IN indentation \o "\n" \o PrefixLines(formatted, 1, indentation) \o indentation \o "\n"

-----------------------------------------------------------------------------
(* The handlers.  Each yields the message it returns, whether it threw, *)
(* and the value it leaves in every field it writes.                     *)

\* #handleTestStart that shows the separator of a diagnostic and leaves the flag set
handleTestStart_KeepsFlag(data) ==
  LET indentation == indent(executing, 1, FALSE, TRUE)
      newFile == data.file # currentFile
      separator == IF newFile /\ Truthy(currentFile) THEN indentation \o "\n" ELSE ""
      \* relative() rejects a path that is not a string
      raised == newFile /\ data.file = undefined
      header ==
        IF newFile
        THEN separator \o colors.gray \o colors.bold \o symbols.rightArrow \o colors.normal
               \o relative(cwd, data.file) \o "\n" \o indentation \o "\n"
        ELSE IF diagnosticShown THEN indent(executing, 2, FALSE, TRUE) \o "\n"
        ELSE ""
      parent ==
        IF data.nesting > nesting
        THEN indent(executing, 0, FALSE, TRUE) \o symbols.rightArrow
               \o (IF Len(executing) = 0 THEN "undefined" ELSE executing[Len(executing)])
               \o "\n" \o indent(executing, 1, FALSE, TRUE) \o "\n"
        ELSE ""
      unchanged == [ raised |-> FALSE, message |-> "", currentFile |-> currentFile,
                     diagnosticShown |-> diagnosticShown, executing |-> executing,
                     nesting |-> nesting ]
  IN IF isFile(data) THEN unchanged
     ELSE IF raised THEN [ unchanged EXCEPT !.raised = TRUE, !.currentFile = data.file ]
     ELSE [ raised |-> FALSE,
            message |-> header \o parent,
            currentFile |-> IF newFile THEN data.file ELSE currentFile,
            diagnosticShown |-> diagnosticShown,
            executing |-> Append(executing, data.name),
            nesting |-> data.nesting ]

\* #handleTestStart
handleTestStart(data) ==
  LET indentation == indent(executing, 1, FALSE, TRUE)
      newFile == data.file # currentFile
      separator == IF newFile /\ Truthy(currentFile) THEN indentation \o "\n" ELSE ""
      \* relative() rejects a path that is not a string
      raised == newFile /\ data.file = undefined
      header ==
        IF newFile
        THEN separator \o colors.gray \o colors.bold \o symbols.rightArrow \o colors.normal
               \o relative(cwd, data.file) \o "\n" \o indentation \o "\n"
        ELSE IF diagnosticShown THEN indent(executing, 2, FALSE, TRUE) \o "\n"
        ELSE ""
      parent ==
        IF data.nesting > nesting
        THEN indent(executing, 0, FALSE, TRUE) \o symbols.rightArrow
               \o (IF Len(executing) = 0 THEN "undefined" ELSE executing[Len(executing)])
               \o "\n" \o indent(executing, 1, FALSE, TRUE) \o "\n"
        ELSE ""
      unchanged == [ raised |-> FALSE, message |-> "", currentFile |-> currentFile,
                     diagnosticShown |-> diagnosticShown, executing |-> executing,
                     nesting |-> nesting ]
  IN IF isFile(data) THEN unchanged
     ELSE IF raised THEN [ unchanged EXCEPT !.raised = TRUE, !.currentFile = data.file ]
     ELSE [ raised |-> FALSE,
            message |-> header \o parent,
            currentFile |-> IF newFile THEN data.file ELSE currentFile,
            diagnosticShown |-> IF ~newFile THEN FALSE ELSE diagnosticShown,
            executing |-> Append(executing, data.name),
            nesting |-> data.nesting ]

\* a pop that takes every name off the stack
Pop_Clears(stack) == << >>

\* this.#executing.pop()
Pop(stack) == IF Len(stack) = 0 THEN stack ELSE SubSeq(stack, 1, Len(stack) - 1)

\* failures.set(file, [record]) whether the file has a bucket or not
PushFailure_Replace(map, file, record) ==
  IF \E i \in 1..Len(map) : map[i].file = file
  THEN [ i \in 1..Len(map) |->
           IF map[i].file = file
           THEN [ map[i] EXCEPT !.failures = << record >> ]
           ELSE map[i] ]
  ELSE Append(map, [ file |-> file, failures |-> << record >> ])

\* failures.push({ ...data, fullName }) on the bucket of file, created when
\* missing; a record keeps the fields of data that are read again
PushFailure(map, file, record) ==
  IF \E i \in 1..Len(map) : map[i].file = file
  THEN [ i \in 1..Len(map) |->
           IF map[i].file = file
           THEN [ map[i] EXCEPT !.failures = Append(@, record) ]
           ELSE map[i] ]
  ELSE Append(map, [ file |-> file, failures |-> << record >> ])

FailureRecord(data, fullName) ==
  [ name |-> data.name, file |-> data.file, line |-> data.line, fullName |-> fullName ]

\* the switch on error.failureType of #handleTestEnd: what is appended to
\* message after the glyph
FailureText(stack, name, error, durationFooter) ==
  CASE error.failureType = "callbackAndPromisePresent" ->
         name \o " - Test both accepted a callback but returned a Promise. " \o durationFooter
    [] error.failureType = "cancelledByParent" ->
         name \o " - Test cancelled by its parent. " \o durationFooter
    [] error.failureType = "testAborted" ->
         name \o " - Test aborted. " \o durationFooter
    [] error.failureType = "parentAlreadyFinished" ->
         name \o " - Parent test already completed. " \o durationFooter
    [] error.failureType = "subtestsFailed" ->
         LET mo == SUBTESTS_FAILED(error.message)
             Failed(amount) ==
               name \o " - " \o NumberToString(amount) \o " " \o pluralize("subtest", amount)
                 \o " failed. " \o durationFooter
         IN Failed(parseInt(IF mo = undefined THEN "0" ELSE mo))
    [] error.failureType = "testCodeFailure" ->
         name \o " " \o durationFooter \o formatError(stack, error.cause)
    [] error.failureType = "testTimeoutFailure" ->
         name \o " - Test timed out after " \o NumberToString(getTimeoutErrorValue(error))
              \o "ms. " \o durationFooter
    [] error.failureType = "hookFailed" ->
         LET mo == FAILED_HOOK_MATCHER(error.message)
             hook == IF mo = undefined THEN "unknown" ELSE mo
         IN name \o " - Error while running " \o hook \o " hook. " \o durationFooter
              \o formatError(stack, error.cause)
    [] OTHER -> ""

\* #handleTestEnd that separates an event of the recorded nesting too
handleTestEnd_SeparatesEqual(data, passed) ==
  LET todo == IF data.todo.type = "string" /\ data.todo.string # ""
              THEN ":" \o colors.normal \o " " \o data.todo.string ELSE ""
      todoTruthy == \/ data.todo.type = "string" /\ data.todo.string # ""
                    \/ data.todo.type = "boolean" /\ data.todo.boolean
      \* data.details!.duration_ms and error.failureType throw on undefined
      raised == ~data.details.present \/ (~passed /\ ~data.details.error.present)
      \* the handler from the stack it left, the name it shows and the
      \* duration in brackets
      Ended(stack, name, duration) ==
        LET durationFooter == colors.gray \o duration \o colors.reset \o "\n"
            Indented(message) ==
              IF data.nesting <= nesting
              THEN indent(stack, 2, FALSE, TRUE) \o "\n" \o indent(stack, 1, FALSE, TRUE)
                     \o message
              ELSE IF ~isFile(data) THEN indent(stack, 1, FALSE, TRUE) \o message
              ELSE message
        IN [ raised |-> raised,
             message |->
               IF raised THEN ""
               ELSE Indented(
                      IF passed
                      THEN (IF data.skip THEN colors.gray ELSE colors.green) \o symbols.pass
                             \o name \o " " \o colors.gray \o duration \o colors.reset
                             \o (IF todoTruthy
                                 THEN " " \o colors.bold \o "# TODO" \o todo \o colors.reset
                                 ELSE IF data.skip
                                 THEN " " \o colors.bold \o "# SKIP" \o colors.reset
                                 ELSE "")
                             \o "\n"
                      ELSE (IF isFile(data) THEN indent(stack, 0, TRUE, TRUE) \o "\n" ELSE "")
                             \o colors.red \o symbols.fail
                             \o FailureText(stack, name, data.details.error, durationFooter)),
             executing |-> stack,
             failures |->
               IF ~passed /\ ~isFile(data)
               THEN PushFailure(failures, data.file,
                                FailureRecord(data, getFullTestName(stack, data)))
               ELSE failures,
             nesting |-> IF raised THEN nesting ELSE data.nesting ]
  IN Ended(IF ~isFile(data) THEN Pop(executing) ELSE executing,
           IF ~passed /\ isFile(data) THEN relative(cwd, data.file) ELSE data.name,
           "(" \o NumberToString(data.details.duration_ms) \o "ms)")

\* #handleTestEnd
handleTestEnd(data, passed) ==
  LET todo == IF data.todo.type = "string" /\ data.todo.string # ""
              THEN ":" \o colors.normal \o " " \o data.todo.string ELSE ""
      todoTruthy == \/ data.todo.type = "string" /\ data.todo.string # ""
                    \/ data.todo.type = "boolean" /\ data.todo.boolean
      \* data.details!.duration_ms and error.failureType throw on undefined
      raised == ~data.details.present \/ (~passed /\ ~data.details.error.present)
      \* the handler from the stack it left, the name it shows and the
      \* duration in brackets
      Ended(stack, name, duration) ==
        LET durationFooter == colors.gray \o duration \o colors.reset \o "\n"
            Indented(message) ==
              IF data.nesting < nesting
              THEN indent(stack, 2, FALSE, TRUE) \o "\n" \o indent(stack, 1, FALSE, TRUE)
                     \o message
              ELSE IF ~isFile(data) THEN indent(stack, 1, FALSE, TRUE) \o message
              ELSE message
        IN [ raised |-> raised,
             message |->
               IF raised THEN ""
               ELSE Indented(
                      IF passed
                      THEN (IF data.skip THEN colors.gray ELSE colors.green) \o symbols.pass
                             \o name \o " " \o colors.gray \o duration \o colors.reset
                             \o (IF todoTruthy
                                 THEN " " \o colors.bold \o "# TODO" \o todo \o colors.reset
                                 ELSE IF data.skip
                                 THEN " " \o colors.bold \o "# SKIP" \o colors.reset
                                 ELSE "")
                             \o "\n"
                      ELSE (IF isFile(data) THEN indent(stack, 0, TRUE, TRUE) \o "\n" ELSE "")
                             \o colors.red \o symbols.fail
                             \o FailureText(stack, name, data.details.error, durationFooter)),
             executing |-> stack,
             failures |->
               IF ~passed /\ ~isFile(data)
               THEN PushFailure(failures, data.file,
                                FailureRecord(data, getFullTestName(stack, data)))
               ELSE failures,
             nesting |-> IF raised THEN nesting ELSE data.nesting ]
  IN Ended(IF ~isFile(data) THEN Pop(executing) ELSE executing,
           IF ~passed /\ isFile(data) THEN relative(cwd, data.file) ELSE data.name,
           "(" \o NumberToString(data.details.duration_ms) \o "ms)")

\* message.split('\n').map(...).join('\n') of #handleDiagnostic
RECURSIVE ReplaceNewlines(_, _)
ReplaceNewlines(s, replacement) ==
  IF Len(s) = 0 THEN ""
  ELSE (IF CharAt(s, 1) = "\n" THEN replacement ELSE CharAt(s, 1))
         \o ReplaceNewlines(SubSeq(s, 2, Len(s)), replacement)

\* #handleDiagnostic keeping the highest number a counter was given
handleDiagnostic_KeepMax(data) ==
  LET mo == SUMMARY_MATCHER(data.message)
      continuation == indent(executing, 2, FALSE, TRUE) \o indent(executing, 1, TRUE, FALSE)
                        \o colors.blue
      formatted == ReplaceNewlines(data.message, "\n" \o continuation)
      highest == IF Gt(counters[mo[1]], parseFloat(mo[2])) THEN counters[mo[1]] ELSE parseFloat(mo[2])
  IN IF mo # << >>
     THEN [ raised |-> FALSE, message |-> "",
            counters |-> [ counters EXCEPT ![mo[1]] = highest ],
            diagnosticShown |-> diagnosticShown ]
     ELSE IF data.message = undefined
     THEN [ raised |-> TRUE, message |-> "", counters |-> counters, diagnosticShown |-> TRUE ]
     ELSE [ raised |-> FALSE,
            message |-> indent(executing, 2, FALSE, TRUE) \o colors.blue \o symbols.diagnostic
                          \o formatted \o "\n",
            counters |-> counters, diagnosticShown |-> TRUE ]

\* #handleDiagnostic
handleDiagnostic(data) ==
  LET mo == SUMMARY_MATCHER(data.message)
      continuation == indent(executing, 2, FALSE, TRUE) \o indent(executing, 1, TRUE, FALSE)
                        \o colors.blue
      formatted == ReplaceNewlines(data.message, "\n" \o continuation)
  IN IF mo # << >>
     THEN [ raised |-> FALSE, message |-> "",
            counters |-> [ counters EXCEPT ![mo[1]] = parseFloat(mo[2]) ],
            diagnosticShown |-> diagnosticShown ]
     ELSE IF data.message = undefined
     THEN [ raised |-> TRUE, message |-> "", counters |-> counters, diagnosticShown |-> TRUE ]
     ELSE [ raised |-> FALSE,
            message |-> indent(executing, 2, FALSE, TRUE) \o colors.blue \o symbols.diagnostic
                          \o formatted \o "\n",
            counters |-> counters, diagnosticShown |-> TRUE ]

\* the entries of a Set of strings built by add() in the order of seq
RECURSIVE Distinct(_)
Distinct(seq) ==
  IF Len(seq) = 0 THEN << >>
  ELSE LET front == Distinct(SubSeq(seq, 1, Len(seq) - 1))
           x == seq[Len(seq)]
       IN IF \E i \in 1..Len(front) : front[i] = x THEN front ELSE Append(front, x)

RECURSIVE Concat(_)
Concat(seq) == IF Len(seq) = 0 THEN "" ELSE seq[1] \o Concat(Tail(seq))

NoTestsMessage ==
  "\n" \o colors.blue \o symbols.rightArrow
    \o "No tests to run or all test might have been skipped or excluded.\n\n"

\* _flush counting the passed tests without the todo tests
PassingCount_PassOnly(passed, todo) == passed

\* _flush: ${passed + todo}, the number of tests the headline calls passing
PassingCount(passed, todo) == Add(passed, todo)

\* the headline opening its parenthesis without looking whether a test was
\* skipped or cancelled
Headline_ClauseUnchecked ==
  LET duration == counters["duration_ms"]
      passed == counters["pass"]
      tests == counters["tests"]
      skipped == counters["skipped"]
      todo == counters["todo"]
      cancelled == counters["cancelled"]
      nfiles == Num(Cardinality(files))
      todoMessage ==
        IF Gt(todo, Zero)
        THEN " (including " \o colors.bold \o NumberToString(todo) \o " "
               \o pluralize("TODO", passed) \o colors.normal \o ")"
        ELSE ""
      nonExecuted ==
        (IF Gt(skipped, Zero)
         THEN << colors.bold \o NumberToString(skipped) \o " " \o pluralize("test", skipped)
                   \o colors.normal \o " " \o pastBeingVerb(skipped) \o " skipped" >>
         ELSE << >>)
        \o (IF Gt(cancelled, Zero)
            THEN << colors.bold \o NumberToString(cancelled) \o " " \o pluralize("test", cancelled)
                      \o colors.normal \o " " \o pastBeingVerb(cancelled) \o " cancelled" >>
            ELSE << >>)
  IN "\n" \o colors.blue \o symbols.rightArrow \o colors.bold \o "Execution " \o colors.bold
       \o (IF success = "true" THEN colors.green \o "PASSED" ELSE colors.red \o "FAILED")
       \o colors.reset \o colors.blue \o " after " \o colors.bold \o formatDuration(duration)
       \o colors.normal
       \o " with " \o colors.bold \o NumberToString(PassingCount(passed, todo)) \o " "
       \o pluralize("test", PassingCount(passed, todo)) \o colors.normal \o todoMessage
       \o " passing out of " \o colors.bold \o NumberToString(tests) \o " "
       \o pluralize("test", tests) \o colors.normal
       \o " over " \o colors.bold \o NumberToString(nfiles) \o " " \o pluralize("file", nfiles)
       \o colors.normal
       \o (IF Gt(skipped, Zero) \/ Gt(todo, Zero) \/ Gt(cancelled, Zero)
           THEN " (" \o niceJoin(nonExecuted, " and ", ", ") \o ")."
           ELSE ".")

\* _flush from 'let message' to the end of the headline sentence
Headline ==
  LET duration == counters["duration_ms"]
      passed == counters["pass"]
      tests == counters["tests"]
      skipped == counters["skipped"]
      todo == counters["todo"]
      cancelled == counters["cancelled"]
      nfiles == Num(Cardinality(files))
      todoMessage ==
        IF Gt(todo, Zero)
        THEN " (including " \o colors.bold \o NumberToString(todo) \o " "
               \o pluralize("TODO", passed) \o colors.normal \o ")"
        ELSE ""
      nonExecuted ==
        (IF Gt(skipped, Zero)
         THEN << colors.bold \o NumberToString(skipped) \o " " \o pluralize("test", skipped)
                   \o colors.normal \o " " \o pastBeingVerb(skipped) \o " skipped" >>
         ELSE << >>)
        \o (IF Gt(cancelled, Zero)
            THEN << colors.bold \o NumberToString(cancelled) \o " " \o pluralize("test", cancelled)
                      \o colors.normal \o " " \o pastBeingVerb(cancelled) \o " cancelled" >>
            ELSE << >>)
  IN "\n" \o colors.blue \o symbols.rightArrow \o colors.bold \o "Execution " \o colors.bold
       \o (IF success = "true" THEN colors.green \o "PASSED" ELSE colors.red \o "FAILED")
       \o colors.reset \o colors.blue \o " after " \o colors.bold \o formatDuration(duration)
       \o colors.normal
       \o " with " \o colors.bold \o NumberToString(PassingCount(passed, todo)) \o " "
       \o pluralize("test", PassingCount(passed, todo)) \o colors.normal \o todoMessage
       \o " passing out of " \o colors.bold \o NumberToString(tests) \o " "
       \o pluralize("test", tests) \o colors.normal
       \o " over " \o colors.bold \o NumberToString(nfiles) \o " " \o pluralize("file", nfiles)
       \o colors.normal
       \o (IF Gt(skipped, Zero) \/ Gt(todo, Zero) \/ Gt(cancelled, Zero)
           THEN IF Len(nonExecuted) > 0
                THEN " (" \o niceJoin(nonExecuted, " and ", ", ") \o ")."
                ELSE ""
           ELSE ".")

\* _flush: the block written when this.#failures.size > 0
FailuresBlock ==
  LET fileIndentation == indent(executing, 1, FALSE, TRUE)
      testIndentation == indent(executing, 2, FALSE, TRUE)
      Line(relativeFile, failure) ==
        indent(executing, 2, FALSE, TRUE) \o colors.gray \o "-" \o colors.reset \o " "
          \o colors.bold \o failure.fullName \o colors.normal \o " " \o colors.gray
          \o "(" \o relativeFile \o ":" \o NumberToString(failure.line) \o ")"
          \o colors.reset \o "\n"
      Entry(i) ==
        LET relativeFile == relative(cwd, failures[i].file)
        IN (IF i > 1 THEN testIndentation \o "\n" ELSE "")
             \o indent(executing, 1, FALSE, TRUE) \o colors.gray \o symbols.rightArrow
             \o colors.bold \o relativeFile \o colors.reset \o "\n" \o testIndentation \o "\n"
             \o Concat([ k \in 1..Len(failures[i].failures) |->
                           Line(relativeFile, failures[i].failures[k]) ])
      filesWithFailures ==
        Distinct([ i \in 1..Len(failures) |-> relative(cwd, failures[i].file) ])
  IN "\n\n" \o colors.red \o colors.bold \o symbols.fail \o "Failed tests:\n"
       \o fileIndentation \o "\n" \o colors.reset
       \o Concat([ i \in 1..Len(failures) |-> Entry(i) ])
       \o "\n" \o colors.red \o colors.bold \o symbols.fail \o "Files with failures:\n"
       \o fileIndentation \o "\n" \o colors.reset
       \o Concat([ i \in 1..Len(filesWithFailures) |->
                     indent(executing, 1, FALSE, TRUE) \o colors.gray \o "-" \o colors.reset
                       \o " " \o colors.bold \o filesWithFailures[i] \o colors.normal \o "\n" ])

\* _flush: relative() rejects the key of a bucket that is not a string
FlushRaises ==
  /\ Truthy(currentFile)
  /\ \E i \in 1..Len(failures) : failures[i].file = undefined

\* _flush deciding on the enqueued files instead of the current file
FlushMessage_ByFiles ==
  IF files = {} THEN NoTestsMessage
  ELSE Headline \o (IF Len(failures) > 0 THEN FailuresBlock ELSE "") \o "\n\n"

\* _flush: the data handed to the callback
FlushMessage ==
  IF ~Truthy(currentFile) THEN NoTestsMessage
  ELSE Headline \o (IF Len(failures) > 0 THEN FailuresBlock ELSE "") \o "\n\n"

-----------------------------------------------------------------------------
(* Events: interface TestReport *)

NoTodo == [ type |-> "undefined", string |-> "", boolean |-> FALSE ]
TodoFlag(b) == [ type |-> "boolean", string |-> "", boolean |-> b ]
TodoReason(reason) == [ type |-> "string", string |-> reason, boolean |-> FALSE ]

NoCause == [ type |-> "undefined", value |-> "", message |-> "" ]
StringCause(text) == [ type |-> "string", value |-> text, message |-> "" ]
\* an Error: value is its stack
ErrorCause(message, stack) == [ type |-> "error", value |-> stack, message |-> message ]

NoError == [ present |-> FALSE, failureType |-> undefined, message |-> undefined, cause |-> NoCause ]
TestError(failureType, message, cause) ==
  [ present |-> TRUE, failureType |-> failureType, message |-> message, cause |-> cause ]

NoDetails == [ present |-> FALSE, duration_ms |-> undefinedNum, error |-> NoError ]
Details(duration, error) == [ present |-> TRUE, duration_ms |-> duration, error |-> error ]

NoCounts == [ present |-> FALSE, tests |-> undefinedNum, passed |-> undefinedNum ]
Counts(tests, passed) == [ present |-> TRUE, tests |-> tests, passed |-> passed ]

Event(type, name, level, file) ==
  [ type |-> type, name |-> name, nesting |-> level, file |-> file,
    line |-> undefinedNum, message |-> undefined, success |-> undefined,
    counts |-> NoCounts, details |-> NoDetails, todo |-> NoTodo, skip |-> FALSE ]

Enqueue(file) == Event("test:enqueue", "", 0, file)
Start(name, file, level) == Event("test:start", name, level, file)
Pass(name, file, level) ==
  [ Event("test:pass", name, level, file) EXCEPT !.details = Details(Num(10), NoError) ]
Fail(name, file, level, line, error) ==
  [ Event("test:fail", name, level, file) EXCEPT
      !.line = Num(line), !.details = Details(Num(10), error) ]
Diagnostic(message) == [ Event("test:diagnostic", "", 0, undefined) EXCEPT !.message = message ]
Stdio(type, message) == [ Event(type, "", 0, undefined) EXCEPT !.message = message ]
Summary(flag, counts) ==
  [ Event("test:summary", "", 0, undefined) EXCEPT !.success = flag, !.counts = counts ]

\* the files of the runs, under the base directory Root
Root == "/r"
F1 == "/r/t.js"
F2 == "/r/s/u.js"

CodeFailure == TestError("testCodeFailure", "boom", StringCause("boom"))

\* tests of two files that start, pass and fail in any order: an end may
\* meet an empty stack, the name of another test on top or another current
\* file, a start may find a test of another file running, a start may carry
\* no file and a failure no error
NestingEvents ==
  { Start("a", F1, 0), Start("b", F1, 1), Start("a", F2, 0), Start("b", undefined, 1),
    Pass("b", F1, 1),
    Fail("a", F1, 0, 3, CodeFailure), Fail("b", F1, 1, 5, CodeFailure),
    Fail("b", F2, 1, 7, CodeFailure), Fail("a", F1, 0, 3, NoError) }

\* one test that ends in every way a test can end
EndingEvents ==
  { Start("a", F1, 0), Start("b", F1, 1),
    Pass("a", F1, 0),
    [ Pass("a", F1, 0) EXCEPT !.skip = TRUE ],
    [ Pass("a", F1, 0) EXCEPT !.todo = TodoFlag(TRUE) ],
    [ Pass("a", F1, 0) EXCEPT !.todo = TodoReason("later") ],
    [ Pass("a", F1, 0) EXCEPT !.details = NoDetails ],
    [ Pass("a", F1, 0) EXCEPT !.details = Details(undefinedNum, NoError) ],
    Fail("a", F1, 0, 3, TestError("callbackAndPromisePresent", "both", NoCause)),
    Fail("a", F1, 0, 3, TestError("cancelledByParent", "cancelled", NoCause)),
    Fail("a", F1, 0, 3, TestError("testAborted", "aborted", NoCause)),
    Fail("a", F1, 0, 3, TestError("parentAlreadyFinished", "finished", NoCause)),
    Fail("a", F1, 0, 3, TestError("subtestsFailed", "2 subtests failed", NoCause)),
    Fail("a", F1, 0, 3, TestError("subtestsFailed", "1 subtest failed", NoCause)),
    Fail("a", F1, 0, 3, TestError("subtestsFailed", "some subtests failed", NoCause)),
    Fail("a", F1, 0, 3, CodeFailure),
    Fail("a", F1, 0, 3, TestError("testCodeFailure", "boom", ErrorCause("boom", "Error: boom\r\n    at f\n"))),
    Fail("a", F1, 0, 3, TestError("testCodeFailure", "boom", NoCause)),
    Fail("a", F1, 0, 3, TestError("testTimeoutFailure", "test timed out after 300ms", NoCause)),
    Fail("a", F1, 0, 3, TestError("testTimeoutFailure", "timed out", NoCause)),
    Fail("a", F1, 0, 3, TestError("hookFailed", "failed running before hook", StringCause("boom"))),
    Fail("a", F1, 0, 3, TestError("hookFailed", "hook broke", StringCause("boom"))),
    Fail("a", F1, 0, 3, TestError("custom", "Test error", NoCause)),
    Fail("a", F1, 0, 3, TestError(undefined, "Test error", NoCause)),
    Fail("a", F1, 0, 3, NoError),
    [ Fail("a", F1, 0, 3, NoError) EXCEPT !.details = NoDetails ] }

\* events of the files themselves, events without a file, and names that
\* end the path of the file without being its last segment
FileEvents ==
  { Enqueue(F1), Enqueue(F2),
    Start("t.js", F1, 0), Start("s/u.js", F2, 0), Start(".js", F1, 0),
    Start("a", F1, 0), Start("a", undefined, 0),
    Pass("t.js", F1, 0), Pass("a", F1, 0),
    Fail("t.js", F1, 0, 1, TestError(undefined, "Test error", NoCause)),
    Fail("s/u.js", F2, 0, 1, CodeFailure),
    Fail("a", F1, 0, 3, CodeFailure) }

\* the diagnostics that close a run
CounterEvents ==
  { Start("a", F1, 0),
    Diagnostic("tests 10"), Diagnostic("pass 7"), Diagnostic("skipped 2"),
    Diagnostic("todo 1"), Diagnostic("cancelled 1"),
    Diagnostic("duration_ms 135.720795"),
    Diagnostic("tests 3"),
    Diagnostic("hello"), Diagnostic("ran tests 3 times"), Diagnostic("one\ntwo"),
    Diagnostic(undefined) }

\* the totals of a run, whole and with a fraction
TotalEvents ==
  { Start("a", F1, 0),
    Diagnostic("tests 10"), Diagnostic("pass 7"), Diagnostic("skipped 2"),
    Diagnostic("todo 1"), Diagnostic("pass 0.1"), Diagnostic("todo 0.2"),
    Diagnostic("duration_ms 1000.0004"), Diagnostic("duration_ms 1000.5004") }

\* one event of every kind, and of no known kind
StreamEvents ==
  { Enqueue(F1), Start("a", F1, 0), Pass("a", F1, 0), Fail("a", F1, 0, 3, CodeFailure),
    Diagnostic("hello"), Diagnostic("tests 3"),
    Stdio("test:stdout", "printed\n"), Stdio("test:stderr", "  warned"),
    Summary("true", NoCounts), Summary("false", NoCounts), Summary(undefined, Counts(Num(3), Num(2))),
    Event("test:coverage", "", 0, undefined), Event("test:dequeue", "a", 0, F1) }

\* tests of two files with diagnostics between them
DiagnosticEvents ==
  UNION { { Start("a", file, 0), Pass("a", file, 0), Start("b", file, 0), Pass("b", file, 0) } :
            file \in { F1, F2 } }
    \cup { Diagnostic("hello"), Diagnostic("tests 3") }

\* one test that fails with each failure type of the switch of #handleTestEnd,
\* with messages that have and that have not the form the type looks for
FailureTypeEvents ==
  { Start("a", F1, 0), Pass("a", F1, 0),
    Start("b", F1, 1), Pass("b", F1, 1),
    Fail("b", F1, 1, 5, TestError("cancelledByParent", "cancelled", NoCause)),
    Fail("a", F1, 0, 3, TestError("callbackAndPromisePresent", "both", NoCause)),
    Fail("a", F1, 0, 3, TestError("cancelledByParent", "cancelled", NoCause)),
    Fail("a", F1, 0, 3, TestError("testAborted", "aborted", NoCause)),
    Fail("a", F1, 0, 3, TestError("parentAlreadyFinished", "finished", NoCause)),
    Fail("a", F1, 0, 3, TestError("subtestsFailed", "2 subtests failed", NoCause)),
    Fail("a", F1, 0, 3, TestError("subtestsFailed", "1 subtest failed", NoCause)),
    Fail("a", F1, 0, 3, TestError("subtestsFailed", "some subtests failed", NoCause)),
    Fail("a", F1, 0, 3, TestError("subtestsFailed", undefined, NoCause)),
    Fail("a", F1, 0, 3, CodeFailure),
    Fail("a", F1, 0, 3, TestError("testCodeFailure", "boom", ErrorCause("boom", "Error: boom\r\n    at f\n"))),
    Fail("a", F1, 0, 3, TestError("testCodeFailure", "boom", NoCause)),
    Fail("a", F1, 0, 3, TestError("testCodeFailure", "boom", ErrorCause("boom", "Error: boom"))),
    Fail("a", F1, 0, 3, TestError("testCodeFailure", "boom", ErrorCause("boom", ""))),
    Fail("a", F1, 0, 3, TestError("testCodeFailure", "boom",
                                  ErrorCause("boom", "Trace\n    at f\nError: boom"))),
    Fail("a", F1, 0, 3, TestError("testCodeFailure", "boom",
                                  ErrorCause("x\n    at y", "Error: x\n    at y"))),
    Fail("a", F1, 0, 3, TestError("testCodeFailure", "boom", ErrorCause("x\n    at y", ""))),
    Fail("a", F1, 0, 3, TestError("testTimeoutFailure", "test timed out after 300ms", NoCause)),
    Fail("a", F1, 0, 3, TestError("testTimeoutFailure", "timed out", NoCause)),
    Fail("a", F1, 0, 3, TestError("testTimeoutFailure", "the test timed out after 300ms", NoCause)),
    Fail("a", F1, 0, 3, TestError("testTimeoutFailure", undefined, NoCause)),
    Fail("a", F1, 0, 3, TestError("hookFailed", "failed running before hook", StringCause("boom"))),
    Fail("a", F1, 0, 3, TestError("hookFailed", "hook broke", StringCause("boom"))) }

\* tests and their file ending at any nesting, in any order
DedentEvents ==
  { Start("a", F1, 0), Start("b", F1, 1),
    Pass("a", F1, 0), Pass("b", F1, 1),
    Pass("t.js", F1, 0), Fail("t.js", F1, 0, 1, CodeFailure) }

Profiles ==
  { "nesting", "ending", "files", "counters", "totals", "stream", "diagnostics", "dedent",
    "failureTypes" }

Vocabulary(p) ==
  CASE p = "nesting" -> NestingEvents
    [] p = "ending" -> EndingEvents
    [] p = "files" -> FileEvents
    [] p = "counters" -> CounterEvents
    [] p = "totals" -> TotalEvents
    [] p = "stream" -> StreamEvents
    [] p = "diagnostics" -> DiagnosticEvents
    [] p = "dedent" -> DedentEvents
    [] p = "failureTypes" -> FailureTypeEvents

-----------------------------------------------------------------------------
(* The stream: constructor, _transform and _flush *)

EmptyCounters == [ name \in { CounterNames[i] : i \in 1..Len(CounterNames) } |-> undefinedNum ]

\* constructor
Init ==
  /\ cwd = Root
  /\ colors \in { TestReporter_colors, NoColors }
  /\ success = "true"
  /\ counters = EmptyCounters
  /\ files = {}
  /\ failures = << >>
  /\ executing = << >>
  /\ nesting = 0
  /\ currentFile = ""
  /\ diagnosticShown = FALSE
  /\ phase = "open"
  /\ last = Event("none", "", 0, undefined)
  /\ out = ""
  /\ before = Fields
  /\ started = FALSE
  /\ profile \in Profiles
  /\ args = << >>
  /\ result = ""
  /\ arrived = << >>
  /\ shownFailing = {}
  /\ running = << >>

FailureCount == Len(Concat([ i \in 1..Len(failures) |-> failures[i].failures ]))

\* the events the source of this run can send next
Accepts(e) ==
  /\ phase = "open"
  /\ e \in Vocabulary(profile)
  /\ (e.type = "test:start" /\ ~isFile(e)) => Len(executing) < MaxDepth
  /\ (e.type = "test:fail" /\ ~isFile(e)) => FailureCount < MaxFailures

\* callback(null, message + this.#colors.reset), or the handler threw and
\* the write never completes
Callback(e, raised, message) ==
  /\ last' = e
  /\ before' = Fields
  /\ started' = (started \/ (e.type = "test:start" /\ ~isFile(e)))
  /\ phase' = IF raised THEN "aborted" ELSE "open"
  /\ out' = IF raised THEN "" ELSE message \o colors.reset
  /\ arrived' = IF e.type = "test:fail" /\ ~isFile(e)
                THEN Append(arrived, [ file |-> e.file, name |-> e.name, line |-> e.line,
                                       stack |-> executing ])
                ELSE arrived
  /\ shownFailing' = IF e.type = "test:fail" /\ ~raised
                     THEN shownFailing \cup { e.file }
                     ELSE shownFailing
  /\ running' = IF e.type = "test:start" /\ ~isFile(e)
                THEN Append(running, e.name)
                ELSE IF e.type \in { "test:pass", "test:fail" } /\ ~isFile(e) /\ Len(running) > 0
                THEN SubSeq(running, 1, Len(running) - 1)
                ELSE running
  /\ UNCHANGED << args, result >>

\* test:enqueue that keeps the last file only
TransformEnqueue_KeepsLast ==
  \E e \in Vocabulary(profile) :
    /\ Accepts(e) /\ e.type = "test:enqueue"
    /\ files' = { e.file }
    /\ Callback(e, FALSE, "")
    /\ UNCHANGED << cwd, colors, success, counters, failures, executing, nesting,
                    currentFile, diagnosticShown, profile >>

\* _transform, case 'test:enqueue'
TransformEnqueue ==
  \E e \in Vocabulary(profile) :
    /\ Accepts(e) /\ e.type = "test:enqueue"
    /\ files' = files \cup { e.file }
    /\ Callback(e, FALSE, "")
    /\ UNCHANGED << cwd, colors, success, counters, failures, executing, nesting,
                    currentFile, diagnosticShown, profile >>

\* test:stdout and test:stderr indented like the line of a test
TransformStdio_Indented ==
  \E e \in Vocabulary(profile) :
    /\ Accepts(e) /\ e.type \in { "test:stderr", "test:stdout" }
    /\ Callback(e, FALSE, indent(executing, 1, FALSE, TRUE) \o e.message)
    /\ UNCHANGED << cwd, colors, success, counters, files, failures, executing, nesting,
                    currentFile, diagnosticShown, profile >>

\* _transform, case 'test:stderr' and case 'test:stdout'
TransformStdio ==
  \E e \in Vocabulary(profile) :
    /\ Accepts(e) /\ e.type \in { "test:stderr", "test:stdout" }
    /\ Callback(e, FALSE, e.message)
    /\ UNCHANGED << cwd, colors, success, counters, files, failures, executing, nesting,
                    currentFile, diagnosticShown, profile >>

\* _transform, case 'test:start'
TransformStart ==
  \E e \in Vocabulary(profile) :
    /\ Accepts(e) /\ e.type = "test:start"
    /\ LET Handled(r) ==
             /\ currentFile' = r.currentFile
             /\ diagnosticShown' = r.diagnosticShown
             /\ executing' = r.executing
             /\ nesting' = r.nesting
             /\ Callback(e, r.raised, r.message)
       IN Handled(handleTestStart(e))
    /\ UNCHANGED << cwd, colors, success, counters, files, failures, profile >>

\* _transform, case 'test:pass'
TransformPass ==
  \E e \in Vocabulary(profile) :
    /\ Accepts(e) /\ e.type = "test:pass"
    /\ IF ~isFile(e)
       THEN LET Handled(r) ==
                  /\ executing' = r.executing
                  /\ nesting' = r.nesting
                  /\ failures' = r.failures
                  /\ Callback(e, r.raised, r.message)
            IN Handled(handleTestEnd(e, TRUE))
       ELSE /\ Callback(e, FALSE, "")
            /\ UNCHANGED << executing, nesting, failures >>
    /\ UNCHANGED << cwd, colors, success, counters, files, currentFile, diagnosticShown,
                    profile >>

\* _transform, case 'test:fail'
TransformFail ==
  \E e \in Vocabulary(profile) :
    /\ Accepts(e) /\ e.type = "test:fail"
    /\ LET Handled(r) ==
             /\ executing' = r.executing
             /\ nesting' = r.nesting
             /\ failures' = r.failures
             /\ Callback(e, r.raised, r.message)
       IN Handled(handleTestEnd(e, FALSE))
    /\ UNCHANGED << cwd, colors, success, counters, files, currentFile, diagnosticShown,
                    profile >>

\* _transform, case 'test:diagnostic'
TransformDiagnostic ==
  \E e \in Vocabulary(profile) :
    /\ Accepts(e) /\ e.type = "test:diagnostic"
    /\ LET Handled(r) ==
             /\ counters' = r.counters
             /\ diagnosticShown' = r.diagnosticShown
             /\ Callback(e, r.raised, r.message)
       IN Handled(handleDiagnostic(e))
    /\ UNCHANGED << cwd, colors, success, files, failures, executing, nesting,
                    currentFile, profile >>

\* test:summary that also copies data.counts into the counters
TransformSummary_TakesCounts ==
  \E e \in Vocabulary(profile) :
    /\ Accepts(e) /\ e.type = "test:summary"
    /\ success' = e.success
    /\ counters' = IF e.counts.present
                   THEN [ counters EXCEPT !["tests"] = e.counts.tests, !["pass"] = e.counts.passed ]
                   ELSE counters
    /\ Callback(e, FALSE, "")
    /\ UNCHANGED << cwd, colors, files, failures, executing, nesting,
                    currentFile, diagnosticShown, profile >>

\* test:summary that records a failure and never takes it back
TransformSummary_OnlyFailure ==
  \E e \in Vocabulary(profile) :
    /\ Accepts(e) /\ e.type = "test:summary"
    /\ success' = IF e.success = "false" THEN "false" ELSE success
    /\ Callback(e, FALSE, "")
    /\ UNCHANGED << cwd, colors, counters, files, failures, executing, nesting,
                    currentFile, diagnosticShown, profile >>

\* _transform, case 'test:summary'
TransformSummary ==
  \E e \in Vocabulary(profile) :
    /\ Accepts(e) /\ e.type = "test:summary"
    /\ success' = e.success
    /\ Callback(e, FALSE, "")
    /\ UNCHANGED << cwd, colors, counters, files, failures, executing, nesting,
                    currentFile, diagnosticShown, profile >>

KnownTypes ==
  { "test:enqueue", "test:stderr", "test:stdout", "test:start", "test:pass", "test:fail",
    "test:diagnostic", "test:summary" }

\* default that falls into the case of test:enqueue
TransformDefault_Enqueues ==
  \E e \in Vocabulary(profile) :
    /\ Accepts(e) /\ e.type \notin KnownTypes
    /\ files' = files \cup { e.file }
    /\ Callback(e, FALSE, "")
    /\ UNCHANGED << cwd, colors, success, counters, failures, executing, nesting,
                    currentFile, diagnosticShown, profile >>

\* _transform, default
TransformDefault ==
  \E e \in Vocabulary(profile) :
    /\ Accepts(e) /\ e.type \notin KnownTypes
    /\ Callback(e, FALSE, "")
    /\ UNCHANGED << cwd, colors, success, counters, files, failures, executing, nesting,
                    currentFile, diagnosticShown, profile >>

\* _flush, called once when the source has ended and every write completed
Flush ==
  /\ phase = "open"
  /\ last' = Event("flush", "", 0, undefined)
  /\ before' = Fields
  /\ UNCHANGED started
  /\ phase' = IF FlushRaises THEN "aborted" ELSE "flushed"
  /\ out' = IF FlushRaises THEN "" ELSE FlushMessage
  /\ UNCHANGED << cwd, colors, success, counters, files, failures, executing, nesting,
                  currentFile, diagnosticShown, profile, args, result, arrived,
                  shownFailing, running >>

Next ==
  \/ TransformEnqueue
  \/ TransformStdio
  \/ TransformStart
  \/ TransformPass
  \/ TransformFail
  \/ TransformDiagnostic
  \/ TransformSummary
  \/ TransformDefault
  \/ Flush

Spec == Init /\ [][Next]_vars

InitNesting == Init /\ profile = "nesting"
InitEnding == Init /\ profile = "ending"
InitFiles == Init /\ profile = "files"
InitCounters == Init /\ profile = "counters"
InitTotals == Init /\ profile = "totals"
InitStream == Init /\ profile = "stream"
InitDiagnostics == Init /\ profile = "diagnostics"
InitDedent == Init /\ profile = "dedent"
InitFailureTypes == Init /\ profile = "failureTypes"

NextTests == TransformStart \/ TransformPass \/ TransformFail \/ Flush
NextFiles == TransformEnqueue \/ TransformStart \/ TransformPass \/ TransformFail \/ Flush
NextCounters == TransformStart \/ TransformDiagnostic \/ Flush
NextDiagnostics == TransformStart \/ TransformPass \/ TransformDiagnostic \/ Flush

SpecNesting == InitNesting /\ [][NextTests]_vars
SpecEnding == InitEnding /\ [][NextTests]_vars
SpecFiles == InitFiles /\ [][NextFiles]_vars
SpecCounters == InitCounters /\ [][NextCounters]_vars
SpecTotals == InitTotals /\ [][NextCounters]_vars
SpecStream == InitStream /\ [][Next]_vars
SpecDiagnostics == InitDiagnostics /\ [][NextDiagnostics]_vars
SpecDedent == InitDedent /\ [][NextTests]_vars
SpecFailureTypes == InitFailureTypes /\ [][NextTests]_vars

-----------------------------------------------------------------------------
(* Calls of the exported helpers pluralize, formatDuration and niceJoin *)

\* no reporter is streaming while a helper is called
NoStream ==
  /\ cwd = Root
  /\ colors = NoColors
  /\ success = "true"
  /\ counters = EmptyCounters
  /\ files = {}
  /\ failures = << >>
  /\ executing = << >>
  /\ nesting = 0
  /\ currentFile = ""
  /\ diagnosticShown = FALSE
  /\ phase = "open"
  /\ last = Event("none", "", 0, undefined)
  /\ out = ""
  /\ before = Fields
  /\ started = FALSE
  /\ result = ""
  /\ arrived = << >>
  /\ shownFailing = {}
  /\ running = << >>

\* the call returns
Return(value) ==
  /\ phase = "open"
  /\ result' = value
  /\ phase' = "returned"
  /\ UNCHANGED << cwd, colors, success, counters, files, failures, executing, nesting,
                  currentFile, diagnosticShown, last, out, before, started, profile, args,
                  arrived, shownFailing, running >>

\* pluralize(word, count): the words the module passes, and counts around 0 and 1
Words == { "test", "file", "TODO", "hour", "minute", "second" }
Amounts ==
  { Zero, parseFloat("0.001"), parseFloat("0.5"), parseFloat("0.999"), Num(1),
    parseFloat("1.001"), parseFloat("1.5"), Num(2), Num(3), Num(10), Infinity, NaN,
    undefinedNum }

InitPluralize == NoStream /\ profile = "pluralize" /\ args \in Words \X Amounts
CallPluralize == profile = "pluralize" /\ Return(pluralize(args[1], args[2]))
SpecPluralize == InitPluralize /\ [][CallPluralize]_vars

\* formatDuration(milliseconds) of args[1] hours, args[2] minutes, args[3]
\* seconds and the fraction args[4] of a millisecond, written as the digits
\* after the decimal point
Hours == 0..3
Sixtieths == { 0, 1, 2, 30, 59 }
MillisecondFractions == { "", "0004", "5", "5004", "720795", "9996" }

\* the number of milliseconds of the arguments
MillisecondsOf(a) ==
  parseFloat(NatToString((3600 * a[1] + 60 * a[2] + a[3]) * 1000)
               \o (IF a[4] = "" THEN "" ELSE "." \o a[4]))

InitFormatDuration ==
  NoStream /\ profile = "formatDuration"
    /\ args \in Hours \X Sixtieths \X Sixtieths \X MillisecondFractions
CallFormatDuration ==
  /\ profile = "formatDuration"
  /\ Return(formatDuration(MillisecondsOf(args)))
SpecFormatDuration == InitFormatDuration /\ [][CallFormatDuration]_vars

\* niceJoin(array, lastSeparator, separator) with the default separators and
\* with separators of the caller
Items == { "one", "two", "three" }
\* longest array handed to niceJoin
MaxItems == 4
Arrays == UNION { [ 1..n -> Items ] : n \in 0..MaxItems }
Separators == { << " and ", ", " >>, << " or ", "; " >> }

InitNiceJoin == NoStream /\ profile = "niceJoin" /\ args \in Arrays \X Separators
CallNiceJoin ==
  /\ profile = "niceJoin"
  /\ Return(niceJoin(args[1], args[2][1], args[2][2]))
SpecNiceJoin == InitNiceJoin /\ [][CallNiceJoin]_vars

TypeOK ==
  /\ phase \in { "open", "flushed", "aborted", "returned" }
  /\ Len(executing) <= MaxDepth
  /\ FailureCount <= MaxFailures

-----------------------------------------------------------------------------
(* Vocabulary of the properties *)

TableFailureTypes ==
  { "callbackAndPromisePresent", "cancelledByParent", "testAborted", "parentAlreadyFinished",
    "subtestsFailed", "testCodeFailure", "testTimeoutFailure", "hookFailed" }

\* name is the end of path
IsSuffix(name, path) ==
  \E k \in 0..Len(path) : SubSeq(path, k + 1, Len(path)) = name

\* the formatter handles the last event as the event of a file
FileLevel(e) == e.file # undefined /\ e.file # "" /\ IsSuffix(e.name, e.file)

\* the bucket of a file in a failure map, empty when the file has none
Bucket(map, file) ==
  IF \E i \in 1..Len(map) : map[i].file = file
  THEN map[CHOOSE i \in 1..Len(map) : map[i].file = file].failures
  ELSE << >>

BucketFiles(map) == { map[i].file : i \in 1..Len(map) }

IsPrefix(s, t) == Len(s) <= Len(t) /\ SubSeq(t, 1, Len(s)) = s

DurationText(e) == "(" \o NumberToString(e.details.duration_ms) \o "ms)"

-----------------------------------------------------------------------------
(* C1..C10 *)

\* C1: a test:fail of a test that is not a file, whose error has a
\* failureType outside the table or none, does not throw and is rendered as
\* the cross glyph, the name of the test and the duration in parentheses.
\* The switch has no default: the text stops after the glyph.
C1_UnknownFailureTypeShowsNameAndDuration ==
  ( /\ last.type = "test:fail"
    /\ ~FileLevel(last)
    /\ last.details.present
    /\ last.details.error.present
    /\ last.details.error.failureType \notin TableFailureTypes )
  => /\ phase = "open"
     /\ Contains(out, symbols.fail \o last.name)
     /\ Contains(out, DurationText(last))

\* C2 as stated: the full name of the failure record is the stack as it was
\* before the pop, then the name of the event, joined by the right arrow.
C2_FullNameFromStackBeforePop ==
  ( last.type = "test:fail" /\ ~FileLevel(last) )
  => LET bucket == Bucket(failures, last.file)
     IN bucket[Len(bucket)].fullName
          = Join(Append(before.executing, last.name), " " \o symbols.rightArrow)

\* C2 amended: the full name of the failure record is the stack as it is
\* after the pop, then the name of the event, joined by the right arrow.
C2_FullNameFromStackAfterPop ==
  ( last.type = "test:fail" /\ ~FileLevel(last) )
  => LET bucket == Bucket(failures, last.file)
         popped == SubSeq(before.executing, 1, Len(before.executing) - 1)
     IN bucket[Len(bucket)].fullName
          = Join(Append(popped, last.name), " " \o symbols.rightArrow)

\* C2 witness: a nested test failed and its record names its parent
C2_Witness ==
  /\ last.type = "test:fail" /\ ~FileLevel(last)
  /\ Len(before.executing) = 2
  /\ Len(executing) = 1
  /\ LET bucket == Bucket(failures, last.file)
     IN bucket[Len(bucket)].fullName
          = executing[1] \o " " \o symbols.rightArrow \o last.name

\* C3: a test:fail of a test that is not a file appends exactly one record
\* to the bucket of its file and changes no other bucket; no event removes
\* or reorders a record or a bucket.
C3_FailureAppendedToOneBucket ==
  /\ ( last.type = "test:fail" /\ ~FileLevel(last) )
     => /\ Len(Bucket(failures, last.file)) = Len(Bucket(before.failures, last.file)) + 1
        /\ IsPrefix(Bucket(before.failures, last.file), Bucket(failures, last.file))
        /\ Bucket(failures, last.file)[Len(Bucket(failures, last.file))].name = last.name
        /\ \A file \in (BucketFiles(failures) \cup BucketFiles(before.failures)) \ { last.file } :
             Bucket(failures, file) = Bucket(before.failures, file)
  /\ Len(before.failures) <= Len(failures)
  /\ \A i \in 1..Len(before.failures) :
       /\ failures[i].file = before.failures[i].file
       /\ IsPrefix(before.failures[i].failures, failures[i].failures)

\* C3 witness: a failure without error was appended behind an earlier one of
\* the same file, and the handler threw after it
C3_Witness ==
  /\ phase = "aborted"
  /\ last.type = "test:fail" /\ ~FileLevel(last)
  /\ ~last.details.error.present
  /\ Len(Bucket(before.failures, last.file)) = 1
  /\ Len(Bucket(failures, last.file)) = 2

\* the fields a handler of a test event may write are as they were
TestStateUnchanged ==
  /\ executing = before.executing
  /\ nesting = before.nesting
  /\ currentFile = before.currentFile
  /\ diagnosticShown = before.diagnosticShown
  /\ failures = before.failures
  /\ counters = before.counters

\* a test:start was handled as the start of a file: nothing shown, nothing written
StartSuppressed == phase = "open" /\ out = colors.reset /\ TestStateUnchanged

\* C4 as stated: an event is handled as the event of a file exactly when the
\* basename of its file equals its name.
C4_FileLevelIffBasenameIsName ==
  last.type = "test:start"
  => ( StartSuppressed <=> ( last.file # undefined /\ Basename(last.file) = last.name ) )

\* C4 amended: an event is handled as the event of a file exactly when it
\* carries a file whose path ends with its name, the basename being one
\* such ending among others.
C4_FileLevelIffPathEndsWithName ==
  last.type = "test:start"
  => ( StartSuppressed <=> ( last.file # undefined /\ IsSuffix(last.name, last.file) ) )

\* C4 witness: a start whose name ends the path without being the basename
\* was handled as the start of a file, while a test was running
C4_Witness ==
  /\ last.type = "test:start"
  /\ IsSuffix(last.name, last.file)
  /\ Basename(last.file) # last.name
  /\ Len(executing) > 0
  /\ StartSuppressed

\* C5: a test:start or test:pass of a file shows nothing and leaves the
\* stack, the nesting, the current file, the diagnostic flag, the buckets
\* and the counters as they were.
C5_FileStartAndPassAreSilent ==
  ( last.type \in { "test:start", "test:pass" } /\ FileLevel(last) )
  => /\ phase = "open"
     /\ out = colors.reset
     /\ TestStateUnchanged

\* C5 witness: the pass of a file arrived while a test of another nesting was running
C5_Witness ==
  /\ last.type = "test:pass"
  /\ Basename(last.file) = last.name
  /\ Len(executing) > 0
  /\ currentFile # ""
  /\ out = colors.reset

\* C6: every test:fail shows something; the fail of a file names the file
\* by its path relative to the base directory behind an extra separator
\* line, and changes neither the stack nor a bucket.
C6_FailAlwaysShown ==
  last.type = "test:fail"
  => /\ phase = "open"
     /\ out # "" /\ out # colors.reset
     /\ FileLevel(last)
        => /\ StartsWithAt(out, 1, indent(executing, 0, TRUE, TRUE) \o "\n")
           /\ Contains(out, symbols.fail \o relative(cwd, last.file))
           /\ executing = before.executing
           /\ failures = before.failures

\* C7: the flush writes exactly the no-tests line when no test:start of a
\* test that is not a file was handled, and a headline with PASSED or FAILED
\* otherwise.
C7_NoTestsIffNothingStarted ==
  phase = "flushed"
  => /\ ( out = "\n" \o colors.blue \o symbols.rightArrow
                  \o "No tests to run or all test might have been skipped or excluded.\n\n" )
          <=> ~started
     /\ started => ( Contains(out, "Execution " \o colors.bold \o colors.green \o "PASSED")
                     \/ Contains(out, "Execution " \o colors.bold \o colors.red \o "FAILED") )

\* C7 witness: a stream that enqueued files and started no test was flushed
\* with the no-tests line
C7_Witness ==
  /\ phase = "flushed"
  /\ ~started
  /\ files # {}
  /\ Contains(out, "No tests to run")

\* C8 as stated: no event lowers a counter.
C8_CountersNeverDecrease ==
  \A name \in DOMAIN counters : ~Lt(counters[name], before.counters[name])

\* whole numbers that the closing diagnostics of a run carry
SampleValues == { 1, 2, 3, 7, 10 }

\* the doubles nearest to 0.1 and to 0.2
Tenth == Finite(BigFromDecimal("3602879701896397"), -55)
Fifth == Finite(BigFromDecimal("3602879701896397"), -54)

\* the message holds the name of the counter, a space and a digit somewhere
NamesCounter(message, name) ==
  /\ message # undefined
  /\ \E i \in 1..Len(message) :
       /\ StartsWithAt(message, i, name \o " ")
       /\ SkipDigits(message, i + Len(name) + 1) > i + Len(name) + 1

\* C8 amended: a counter changes only by a diagnostic whose message holds,
\* anywhere in it, the name of the counter followed by a number; the
\* diagnostic sets that counter to the number, lower than before or not, and
\* leaves the other counters as they were.  A diagnostic without such a
\* fragment, a diagnostic without message and an event that is not a
\* diagnostic leave every counter as it was.
C8_DiagnosticSetsCounter ==
  /\ last.type # "test:diagnostic" => counters = before.counters
  /\ \A name \in DOMAIN counters :
       counters[name] # before.counters[name]
       => last.type = "test:diagnostic" /\ NamesCounter(last.message, name)
  /\ ( last.type = "test:diagnostic"
         /\ \A name \in DOMAIN counters : ~NamesCounter(last.message, name) )
     => counters = before.counters
  /\ \A name \in DOMAIN counters : \A v \in SampleValues :
       ( /\ last.type = "test:diagnostic"
         /\ last.message \in { name \o " " \o NatToString(v),
                               "ran " \o name \o " " \o NatToString(v) \o " times" } )
       => counters = [ before.counters EXCEPT ![name] = Num(v) ]
  /\ ( last.type = "test:diagnostic" /\ last.message = "duration_ms 135.720795" )
     => counters = [ before.counters EXCEPT !["duration_ms"] = parseFloat("135.720795") ]

\* C8 second witness: 'ran tests 3 times' arrived when the counter was 10
C8_InnerFragmentWitness ==
  /\ last.type = "test:diagnostic"
  /\ last.message = "ran tests 3 times"
  /\ before.counters["tests"] = Num(10)
  /\ counters["tests"] = Num(3)

\* C8 witness: 'tests 3' arrived when the counter was 10
C8_Witness ==
  /\ last.type = "test:diagnostic"
  /\ last.message = "tests 3"
  /\ before.counters["tests"] = Num(10)
  /\ counters["tests"] = Num(3)

\* the whole message is '<counterName> <number>'
IsSummaryFragment(message) ==
  \E k \in 1..Len(CounterNames) :
    /\ StartsWithAt(message, 1, CounterNames[k])
    /\ NumberEnd(message, Len(CounterNames[k]) + 1) = Len(message)

\* C9: a diagnostic whose message is not a summary fragment, also one that
\* holds such a fragment inside a longer text, is shown as a diagnostic
\* line, sets the diagnostic flag and leaves the counters as they were.
C9_FreeTextDiagnosticIsShown ==
  ( /\ last.type = "test:diagnostic"
    /\ last.message # undefined
    /\ ~IsSummaryFragment(last.message) )
  => /\ phase = "open"
     /\ Contains(out, symbols.diagnostic \o Split(last.message, "\n")[1])
     /\ diagnosticShown
     /\ counters = before.counters

\* first index of s in t, 0 when s does not occur in t
IndexOf(t, s) ==
  IF Contains(t, s)
  THEN CHOOSE i \in 1..(Len(t) + 1) :
         StartsWithAt(t, i, s) /\ \A j \in 1..(i - 1) : ~StartsWithAt(t, j, s)
  ELSE 0

\* C10 as stated: with the counters tests = T, pass = P and todo = D set, the
\* headline says '<P + D> tests passing out of <T>', the styling aside; after
\* 'tests 10', 'pass 7', 'skipped 2' and 'todo 1' it says '8 tests passing
\* out of 10' and its parenthesis that 2 tests were skipped.
C10_HeadlineIsCountPassingOutOfTotal ==
  LET P == counters["pass"]
      D == counters["todo"]
      T == counters["tests"]
  IN ( phase = "flushed" /\ started /\ IsNumber(P) /\ IsNumber(D) /\ IsNumber(T) )
     => /\ \E word \in { "test", "tests" } :
             Contains(out, " with " \o colors.bold \o NumberToString(Add(P, D)) \o " " \o word
                             \o colors.normal \o " passing out of " \o colors.bold
                             \o NumberToString(T) \o " ")
        /\ ( P = Num(7) /\ D = Num(1) /\ T = Num(10) /\ counters["skipped"] = Num(2) )
           => /\ Contains(out, colors.bold \o "8 tests" \o colors.normal \o " passing out of "
                                 \o colors.bold \o "10")
              /\ Contains(out, " (" \o colors.bold \o "2 tests" \o colors.normal
                                 \o " were skipped).")

\* C10 amended: with the counters tests = T, pass = P and todo = D set, the
\* headline says ' with <P + D> test(s)', then, when D is above 0, the
\* parenthesis ' (including <D> TODO(s))', then ' passing out of <T> test(s)
\* over '; after 'tests 10', 'pass 7', 'skipped 2' and 'todo 1' it says
\* '8 tests (including 1 TODO(s)) passing out of 10 tests' and ends with
\* ' (2 tests were skipped).'.  P + D is the sum of two doubles: after
\* 'pass 0.1' and 'todo 0.2' the headline says 0.30000000000000004 tests.
C10_HeadlineCountsPassedPlusTodo ==
  LET P == counters["pass"]
      D == counters["todo"]
      T == counters["tests"]
      Clause(amount, word) ==
        " (including " \o colors.bold \o amount \o " " \o word \o colors.normal \o ")"
      Sentence(passing, tests, clause, total, ofTests) ==
        " with " \o colors.bold \o passing \o " " \o tests \o colors.normal \o clause
          \o " passing out of " \o colors.bold \o total \o " " \o ofTests \o colors.normal
          \o " over "
  IN ( phase = "flushed" /\ started /\ IsNumber(P) /\ IsNumber(D) /\ IsNumber(T) )
     => /\ \E tests, ofTests \in { "test", "tests" } : \E todos \in { "TODO", "TODOs" } :
             Contains(out, Sentence(NumberToString(Add(P, D)), tests,
                                    IF Gt(D, Zero) THEN Clause(NumberToString(D), todos) ELSE "",
                                    NumberToString(T), ofTests))
        /\ ( P = Num(7) /\ D = Num(1) /\ T = Num(10) /\ counters["skipped"] = Num(2) )
           => /\ \E todos \in { "TODO", "TODOs" } :
                   Contains(out, Sentence("8", "tests", Clause("1", todos), "10", "tests"))
              /\ Contains(out, " (" \o colors.bold \o "2 tests" \o colors.normal
                                 \o " were skipped).")
        /\ ( P = Tenth /\ D = Fifth )
           => Contains(out, " with " \o colors.bold \o "0.30000000000000004 tests"
                              \o colors.normal \o " (including " \o colors.bold
                              \o "0.2 TODOs" \o colors.normal \o ") passing out of ")

\* the totals 'pass 0.1', 'todo 0.2' and 'tests 10' were flushed after
\* 'duration_ms 1000.0004', which the headline tells as 1.000 seconds
FractionalTotalsFlushed ==
  /\ phase = "flushed" /\ started
  /\ counters["pass"] = Tenth
  /\ counters["todo"] = Fifth
  /\ counters["tests"] = Num(10)
  /\ Contains(out, " after " \o colors.bold \o "1.000 seconds" \o colors.normal
                     \o " with " \o colors.bold \o "0.30000000000000004 tests")

\* C10 witness: the run of the four diagnostics was flushed
C10_Witness ==
  /\ phase = "flushed" /\ started
  /\ counters["tests"] = Num(10)
  /\ counters["pass"] = Num(7)
  /\ counters["skipped"] = Num(2)
  /\ counters["todo"] = Num(1)
  /\ Contains(out, "8 tests" \o colors.normal \o " (including ")

-----------------------------------------------------------------------------
(* C11..C20 *)

\* C11: a test:summary event changes the success flag and nothing else: the
\* counters (also when the event carries counts), the files, the failures,
\* the stack, the nesting, the current file and the diagnostic flag are as
\* they were, the handler does not throw and the text pushed is empty (the
\* colour reset alone).
C11_SummaryChangesOnlySuccess ==
  last.type = "test:summary" =>
    /\ phase = "open"
    /\ out = colors.reset
    /\ success = last.success
    /\ [ Fields EXCEPT !.success = before.success ] = before

C11_Witness ==
  /\ last.type = "test:summary"
  /\ last.counts.present
  /\ last.counts.passed # counters["pass"]
  /\ counters["tests"] = Num(3)
  /\ success # before.success
  /\ Len(executing) > 0

\* C12: after a test:start of a test that is not a file, in a file other
\* than the current one, the diagnostic flag is false.  The branch of the new
\* file does not write the flag: a diagnostic shown in the file before is
\* still recorded, and the second test of the new file gets the separator.
C12_NewFileResetsDiagnosticShown ==
  ( /\ last.type = "test:start"
    /\ ~isFile(last)
    /\ last.file # before.currentFile
    /\ phase = "open" )
  => diagnosticShown = FALSE

\* a field the handler of the end of a test reads is missing from the event
MissingField(e) ==
  \/ ~e.details.present
  \/ e.details.duration_ms = undefinedNum
  \/ e.type = "test:fail" /\ ~e.details.error.present

\* C13: a test:pass or test:fail whose details, details.duration_ms or (for
\* a fail) details.error is absent does not throw and is rendered: the line
\* of the test is pushed, with its name.  The handler reads
\* data.details!.duration_ms and error.failureType without a guard and
\* throws a TypeError when details or the error is absent.
C13_MissingFieldsAreRendered ==
  ( /\ last.type \in { "test:pass", "test:fail" }
    /\ ~(last.type = "test:pass" /\ isFile(last))
    /\ MissingField(last) )
  => /\ phase = "open"
     /\ Contains(out, last.name)

\* C14: no handler aborts the stream, whatever the events: a handler that
\* throws leaves the write pending for ever, so that no later event is
\* handled and _flush never runs.
C14_NoHandlerAborts == phase # "aborted"

\* C15: a test:start without a file pushes no text and does not throw.  The
\* handler takes the absent file for a new file and hands it to
\* path.relative, which throws a TypeError.
C15_StartWithoutFileIsSilent ==
  (last.type = "test:start" /\ last.file = undefined)
  => /\ phase = "open"
     /\ out = colors.reset

\* C16: pluralize(word, count) appends "s" exactly when count is not 1, so
\* also for count 0.  The code appends it when count > 1 or 0 < count < 1:
\* count 0 gets the singular.
C16_PluralUnlessExactlyOne ==
  (profile = "pluralize" /\ phase = "returned" /\ IsNumber(args[2]))
  => result = args[1] \o (IF args[2] # Num(1) THEN "s" ELSE "")

\* the text of a list: "x", "x and y", "x, y and z"
ListText(parts) ==
  CASE Len(parts) = 1 -> parts[1]
    [] Len(parts) = 2 -> parts[1] \o " and " \o parts[2]
    [] Len(parts) = 3 -> parts[1] \o ", " \o parts[2] \o " and " \o parts[3]

\* C17: for a whole number of seconds, h hours, m minutes and s seconds,
\* formatDuration lists the hours exactly when h > 0, the minutes exactly
\* when m > 0 and always the seconds, in that order, as a list in natural
\* language; no component of value zero is printed for the hours or the
\* minutes.
C17_DurationListsNonZeroTiers ==
  (profile = "formatDuration" /\ phase = "returned" /\ args[4] = "")
  => \E ph, pm, ps \in { "", "s" } :
       result = ListText(
         (IF args[1] > 0 THEN << NatToString(args[1]) \o " hour" \o ph >> ELSE << >>)
         \o (IF args[2] > 0 THEN << NatToString(args[2]) \o " minute" \o pm >> ELSE << >>)
         \o << NatToString(args[3]) \o " second" \o ps >>)

C17_Witness ==
  /\ profile = "formatDuration" /\ phase = "returned"
  /\ args = << 2, 0, 30, "" >>
  /\ result = "2 hours and 30 seconds"

\* C18: niceJoin gives "" for no item, the item for one, the two items
\* around the last separator for two, and for three or more the items but
\* the last with the separator between them, then the last separator and
\* the last item; the items keep their order.
C18_NiceJoinByLength ==
  (profile = "niceJoin" /\ phase = "returned")
  => LET a == args[1]
         lastSeparator == args[2][1]
         separator == args[2][2]
     IN CASE Len(a) = 0 -> result = ""
          [] Len(a) = 1 -> result = a[1]
          [] Len(a) = 2 -> result = a[1] \o lastSeparator \o a[2]
          [] Len(a) = 3 -> result = a[1] \o separator \o a[2] \o lastSeparator \o a[3]
          [] Len(a) = 4 -> result = a[1] \o separator \o a[2] \o separator \o a[3] \o lastSeparator \o a[4]
          [] OTHER ->
               /\ \E k \in 1..Len(result) :
                    /\ SubSeq(result, k, Len(result)) = separator \o a[Len(a) - 1] \o lastSeparator \o a[Len(a)]
               /\ IsPrefix(a[1] \o separator \o a[2] \o separator, result)

C18_Witness ==
  /\ profile = "niceJoin" /\ phase = "returned"
  /\ args = << << "one", "two", "three", "one" >>, << " or ", "; " >> >>
  /\ result = "one; two; three or one"

\* C20: an event of a kind other than the eight that _transform names is
\* ignored: the handler does not throw, the text pushed is empty (the colour
\* reset alone) and every field of the instance is as it was.
C20_UnknownKindIsIgnored ==
  (last.type \notin KnownTypes \cup { "none", "flush" })
  => /\ phase = "open"
     /\ out = colors.reset
     /\ Fields = before

C20_Witness ==
  /\ last.type = "test:coverage"
  /\ Len(executing) > 0
  /\ files # {}
  /\ diagnosticShown
  /\ Len(failures) > 0

-----------------------------------------------------------------------------
(* C21..C30 *)

\* C21: a test:stdout or test:stderr event pushes its message as it is, with
\* no indentation and no glyph (the colour reset that ends every push, empty
\* without colours, is all that follows it), and writes no field.
C21_StdioIsVerbatim ==
  last.type \in { "test:stdout", "test:stderr" }
  => /\ phase = "open"
     /\ out = last.message \o colors.reset
     /\ Fields = before

C21_Witness ==
  /\ last.type = "test:stderr"
  /\ out = "  warned" \o colors.reset
  /\ Len(executing) > 0
  /\ diagnosticShown

\* C22: a test:enqueue adds its file to the set of files, once however often
\* it is enqueued, pushes no text and writes nothing else; the headline of
\* the summary counts the files of the set after 'over'.
C22_EnqueueCountsDistinctFiles ==
  /\ last.type = "test:enqueue"
     => /\ phase = "open"
        /\ out = colors.reset
        /\ files = before.files \cup { last.file }
        /\ [ Fields EXCEPT !.files = before.files ] = before
  /\ (phase = "flushed" /\ Truthy(currentFile))
     => Contains(out, " over " \o colors.bold \o NatToString(Cardinality(files)) \o " file")

C22_Witness ==
  /\ phase = "flushed"
  /\ files = { F1, F2 }
  /\ Contains(out, " over " \o colors.bold \o "2 files" \o colors.normal)

\* the text of t from index i on
From(t, i) == SubSeq(t, i, Len(t))

\* t holds the texts of marks one after the other, in their order
RECURSIVE AppearInOrder(_, _)
AppearInOrder(t, marks) ==
  \/ Len(marks) = 0
  \/ /\ Contains(t, marks[1])
     /\ AppearInOrder(From(t, IndexOf(t, marks[1]) + Len(marks[1])), Tail(marks))

Occurrences(t, s) == Cardinality({ i \in 1..Len(t) : StartsWithAt(t, i, s) })

\* the files of the failures in the order of their first failure
FailedFiles == Distinct([ i \in 1..Len(arrived) |-> arrived[i].file ])

\* what the block of the failed tests shows of a file: its header, then one
\* line for each of its failures in the order of their arrival, with the
\* names of the tests still running, the name of the test and the line
FailedTestsOf(file) ==
  LET own == SelectSeq(arrived, LAMBDA a : a.file = file)
      path == relative(cwd, file)
      Name(a) == Join(SubSeq(a.stack, 1, Len(a.stack) - 1) \o << a.name >>,
                      " " \o symbols.rightArrow)
  IN << symbols.rightArrow \o colors.bold \o path \o colors.reset \o "\n" >>
       \o [ k \in 1..Len(own) |->
              colors.bold \o Name(own[k]) \o colors.normal \o " " \o colors.gray
                \o "(" \o path \o ":" \o NumberToString(own[k].line) \o ")" ]

RECURSIVE Flatten(_)
Flatten(seqs) == IF Len(seqs) = 0 THEN << >> ELSE seqs[1] \o Flatten(Tail(seqs))

FileEntry(file) ==
  colors.gray \o "-" \o colors.reset \o " " \o colors.bold \o relative(cwd, file)
    \o colors.normal \o "\n"

\* C23: when tests have failed, the summary holds the block 'Failed tests:'
\* with the files in the order of their first failure and under each file
\* its failures in the order of arrival, each with its full name and line,
\* and after it the block 'Files with failures:' with one entry for every
\* such file.
C23_FailureBlocksInArrivalOrder ==
  (phase = "flushed" /\ Len(arrived) > 0)
  => LET second == "Files with failures:\n"
     IN /\ AppearInOrder(out,
             << "Failed tests:\n" >>
               \o Flatten([ i \in 1..Len(FailedFiles) |-> FailedTestsOf(FailedFiles[i]) ])
               \o << second >>
               \o [ i \in 1..Len(FailedFiles) |-> FileEntry(FailedFiles[i]) ])
        /\ \A i \in 1..Len(FailedFiles) :
             /\ Occurrences(From(out, IndexOf(out, second)), FileEntry(FailedFiles[i])) = 1
             /\ Occurrences(out, FailedTestsOf(FailedFiles[i])[1]) = 1

\* C24: the headline ends in a parenthesis exactly when the counter of the
\* skipped or of the cancelled tests is above 0; the parenthesis tells the
\* skipped tests exactly when skipped > 0 and the cancelled tests exactly
\* when cancelled > 0, with 'and' between the two.
C24_ClauseIffSkippedOrCancelled ==
  (phase = "flushed" /\ Truthy(currentFile))
  => LET skipped == counters["skipped"]
         cancelled == counters["cancelled"]
         Told(count, what) ==
           colors.bold \o NumberToString(count) \o " " \o (IF StrictEquals(count, Num(1)) THEN "test" ELSE "tests")
             \o colors.normal \o " " \o (IF StrictEquals(count, Num(1)) THEN "was" ELSE "were") \o what
     IN /\ Contains(out, ").") <=> (Gt(skipped, Zero) \/ Gt(cancelled, Zero))
        /\ Contains(out, " skipped") <=> Gt(skipped, Zero)
        /\ Contains(out, " cancelled") <=> Gt(cancelled, Zero)
        /\ Gt(skipped, Zero) /\ ~Gt(cancelled, Zero)
             => Contains(out, " (" \o Told(skipped, " skipped") \o ").")
        /\ ~Gt(skipped, Zero) /\ Gt(cancelled, Zero)
             => Contains(out, " (" \o Told(cancelled, " cancelled") \o ").")
        /\ Gt(skipped, Zero) /\ Gt(cancelled, Zero)
             => Contains(out, " (" \o Told(skipped, " skipped") \o " and "
                                \o Told(cancelled, " cancelled") \o ").")

C24_Witness ==
  /\ phase = "flushed"
  /\ Truthy(currentFile)
  /\ counters["skipped"] = Num(2)
  /\ counters["cancelled"] = Num(1)
  /\ counters["todo"] = Num(1)

\* the names of the test:start events of the run that are events of a file
FileStartNames ==
  { e.name : e \in { v \in Vocabulary(profile) : v.type = "test:start" /\ FileLevel(v) } }

\* C25: the stack never holds a name that the start of a file pushed: a
\* test:start whose name is the last segment of its file (or any other end
\* of its path) leaves the stack as it was, whatever came before.
C25_FileStartNeverPushed ==
  /\ (last.type = "test:start" /\ FileLevel(last)) => executing = before.executing
  /\ \A i \in 1..Len(executing) : executing[i] \notin FileStartNames

C25_Witness ==
  /\ last.type = "test:start"
  /\ Basename(last.file) = last.name
  /\ Len(executing) > 0
  /\ Len(failures) > 0

\* C26: the recorded nesting is never negative and tells the depth of the
\* stack: right after the test:start of a test the stack is one deeper than
\* the nesting, right after its test:pass or test:fail as deep.  The code
\* copies the nesting of the event and pushes or pops whatever the event
\* says.
C26_NestingReflectsDepth ==
  /\ nesting >= 0
  /\ (last.type = "test:start" /\ ~isFile(last)) => Len(executing) = nesting + 1
  /\ (last.type \in { "test:pass", "test:fail" } /\ ~isFile(last)) => Len(executing) = nesting

\* C27: every event handed over gets one push, made before the next event is
\* taken, and the end of the stream gets one push, the summary, after which
\* nothing is handed over.  A handler that throws makes no push, and then
\* neither do the events after it nor the end of the stream.
C27_OnePushForEachEvent ==
  /\ last.type \notin { "none", "flush" } => phase = "open"
  /\ last.type = "flush" => (phase = "flushed" /\ out = FlushMessage)
  /\ phase = "flushed" => last.type = "flush"

\* C28: the headline says PASSED exactly when the success flag is true, and
\* FAILED otherwise; the flag is true at first, takes the success of each
\* test:summary and is written by no other event.
C28_PassedIffSuccess ==
  /\ last.type = "none" => success = "true"
  /\ last.type = "test:summary" => success = last.success
  /\ last.type \notin { "none", "test:summary" } => success = before.success
  /\ (phase = "flushed" /\ Truthy(currentFile))
     => /\ Contains(out, "PASSED") <=> success = "true"
        /\ Contains(out, "FAILED") <=> success # "true"

\* C28 witness: the test started, it passed and the summary said success
C28_Witness ==
  /\ phase = "flushed"
  /\ currentFile = F1
  /\ executing = << >>
  /\ failures = << >>
  /\ success = "true"
  /\ Contains(out, "Execution " \o colors.bold \o colors.green \o "PASSED")

\* C29: the test:start of a test shows the header of its file exactly when
\* that file is not the current file, and the file is the current file
\* afterwards; a blank line of the indentation comes before the header
\* exactly when there was a current file.  Two starts in one file show one
\* header; starts in the files A, B and A show three.
C29_HeaderIffFileChanges ==
  (last.type = "test:start" /\ ~FileLevel(last))
  => /\ phase = "open"
     /\ currentFile = last.file
     /\ LET header == colors.gray \o colors.bold \o symbols.rightArrow \o colors.normal
                        \o relative(cwd, last.file) \o "\n"
            blank == indent(before.executing, 1, FALSE, TRUE) \o "\n"
            new == last.file # before.currentFile
        IN /\ Contains(out, header) <=> new
           /\ Occurrences(out, header) <= 1
           /\ new => IF before.currentFile # ""
                     THEN IsPrefix(blank \o header, out)
                     ELSE IsPrefix(header, out)

\* the breadcrumbs in what the last test:start pushed: the arrow glyphs but
\* the one of the file header
Breadcrumbs ==
  Occurrences(out, symbols.rightArrow) - (IF last.file # before.currentFile THEN 1 ELSE 0)

\* C30: the test:start of a test shows the breadcrumb of its parent exactly
\* when its nesting is above the recorded nesting, and the breadcrumb names
\* the test on top of the stack; then the name is pushed and the nesting of
\* the event recorded.  With an empty stack the code prints the breadcrumb
\* of 'undefined'.
C30_BreadcrumbNamesTopOfStack ==
  (last.type = "test:start" /\ ~FileLevel(last) /\ last.file # undefined)
  => /\ phase = "open"
     /\ Breadcrumbs = (IF last.nesting > before.nesting THEN 1 ELSE 0)
     /\ Breadcrumbs = 1
          => /\ Len(before.executing) > 0
             /\ Contains(out, symbols.rightArrow \o before.executing[Len(before.executing)] \o "\n")
     /\ executing = Append(before.executing, last.name)
     /\ nesting = last.nesting

-----------------------------------------------------------------------------
(* C31..C40 *)

\* the blank line that a test:start puts before a test that follows a diagnostic
DiagnosticSeparator == indent(before.executing, 2, FALSE, TRUE) \o "\n"

\* C31: a diagnostic that is rendered sets the diagnostic flag; test:pass,
\* test:fail, test:stdout, test:stderr, test:enqueue and test:summary leave
\* it as it is; the test:start of a test in the current file begins with one
\* blank separating line exactly when the flag was set, and clears the flag,
\* so that the start after it shows no separator unless a diagnostic came
\* in between.
C31_DiagnosticFlagLifecycle ==
  /\ (last.type = "test:diagnostic" /\ phase = "open" /\ out # colors.reset)
     => diagnosticShown
  /\ last.type \in { "test:pass", "test:fail", "test:stdout", "test:stderr",
                     "test:enqueue", "test:summary" }
     => diagnosticShown = before.diagnosticShown
  /\ (last.type = "test:start" /\ ~FileLevel(last) /\ last.file = before.currentFile)
     => /\ phase = "open"
        /\ diagnosticShown = FALSE
        /\ IsPrefix(DiagnosticSeparator, out) <=> before.diagnosticShown
        /\ Occurrences(out, DiagnosticSeparator) = (IF before.diagnosticShown THEN 1 ELSE 0)

\* C31 witness: a diagnostic was shown, a summary and a failure came, and the
\* next test of the file starts behind the separator
C31_Witness ==
  /\ last.type = "test:start"
  /\ last.file = before.currentFile
  /\ before.diagnosticShown
  /\ ~diagnosticShown
  /\ IsPrefix(DiagnosticSeparator, out)
  /\ success = "false"
  /\ Len(failures) > 0

\* the blank line and the indentation that begin the line of a test that
\* ends at a nesting below the recorded one
DedentSeparator ==
  indent(executing, 2, FALSE, TRUE) \o "\n" \o indent(executing, 1, FALSE, TRUE)

\* C32: what a test:pass or test:fail pushes begins with the blank
\* separating line exactly when the nesting of the event is below the
\* recorded nesting; with an equal or a higher nesting the line of a test
\* begins with its indentation and its glyph; either way the nesting of the
\* event is recorded.  The test:pass of a file pushes nothing and leaves the
\* recorded nesting as it was.
C32_DedentSeparatesAndNestingIsRecorded ==
  /\ ( /\ last.type \in { "test:pass", "test:fail" }
       /\ ~(last.type = "test:pass" /\ FileLevel(last)) )
     => /\ phase = "open"
        /\ IsPrefix(DedentSeparator, out) <=> last.nesting < before.nesting
        /\ (last.nesting >= before.nesting /\ ~FileLevel(last))
             => \E glyph \in { colors.green \o symbols.pass, colors.gray \o symbols.pass,
                               colors.red \o symbols.fail } :
                  IsPrefix(indent(executing, 1, FALSE, TRUE) \o glyph \o last.name, out)
        /\ nesting = last.nesting
  /\ (last.type = "test:pass" /\ FileLevel(last))
     => /\ out = colors.reset
        /\ nesting = before.nesting

\* C32 witness: subtest b has ended at nesting 1 and test a ends at nesting 0
C32_Witness ==
  /\ last.type = "test:pass"
  /\ last.name = "a"
  /\ before.nesting = 1
  /\ nesting = 0
  /\ before.executing = << "a" >>
  /\ IsPrefix(DedentSeparator \o colors.green \o symbols.pass \o "a ", out)

\* C32 second witness: the test:pass of the file arrives while the recorded nesting is 1
C32_FilePassWitness ==
  /\ last.type = "test:pass"
  /\ FileLevel(last)
  /\ last.nesting = 0
  /\ nesting = 1

\* the sentence of each failure type of the table that has a fixed one
FixedMessage ==
  [ type \in TableFailureTypes |->
      CASE type = "callbackAndPromisePresent" -> "Test both accepted a callback but returned a Promise."
        [] type = "cancelledByParent" -> "Test cancelled by its parent."
        [] type = "testAborted" -> "Test aborted."
        [] type = "parentAlreadyFinished" -> "Parent test already completed."
        [] type = "subtestsFailed" -> " failed."
        [] type = "testCodeFailure" -> ""
        [] type = "testTimeoutFailure" -> "Test timed out after "
        [] type = "hookFailed" -> "Error while running " ]

\* the number that an error message of the runs states in the form of its
\* type, 0 for a message in another form
StatedNumber(message) ==
  CASE message = "2 subtests failed" -> "2"
    [] message = "1 subtest failed" -> "1"
    [] message = "test timed out after 300ms" -> "300"
    [] OTHER -> "0"

\* C33: the line of a test:fail whose error has one of the eight failure types
\* of the table holds the cross glyph and the name of the test, the sentence
\* of the type and the duration; for subtestsFailed and testTimeoutFailure the
\* sentence shows the number that the message of the error states when the
\* message has the form of the type, and 0 when it has not.
C33_FailureTypeSentence ==
  ( /\ last.type = "test:fail"
    /\ ~FileLevel(last)
    /\ last.details.present
    /\ last.details.error.present
    /\ last.details.error.failureType \in TableFailureTypes )
  => LET error == last.details.error
         type == error.failureType
         footer == colors.gray \o DurationText(last) \o colors.reset \o "\n"
     IN /\ phase = "open"
        /\ Contains(out, colors.red \o symbols.fail \o last.name)
        /\ Contains(out, FixedMessage[type])
        /\ Contains(out, footer)
        /\ type \notin { "testCodeFailure", "subtestsFailed", "testTimeoutFailure", "hookFailed" }
             => Contains(out, last.name \o " - " \o FixedMessage[type] \o " " \o footer)
        /\ type = "testCodeFailure" => Contains(out, last.name \o " " \o footer)
        /\ type = "subtestsFailed"
             => \E word \in { " subtest", " subtests" } :
                  Contains(out, last.name \o " - " \o StatedNumber(error.message) \o word
                                  \o " failed. " \o footer)
        /\ type = "testTimeoutFailure"
             => Contains(out, last.name \o " - Test timed out after "
                                \o StatedNumber(error.message) \o "ms. " \o footer)
        /\ type = "hookFailed"
             => \E hook \in { "before", "unknown" } :
                  Contains(out, last.name \o " - Error while running " \o hook \o " hook. " \o footer)

\* C33 witness: the timeout of the end-to-end scenario
C33_Witness ==
  /\ last.type = "test:fail"
  /\ last.details.error.failureType = "testTimeoutFailure"
  /\ last.details.error.message = "test timed out after 300ms"
  /\ Contains(out, "timed out after 300ms")

\* C33 second witness: a timeout whose message states no number
C33_NoMatchWitness ==
  /\ last.type = "test:fail"
  /\ last.details.error.failureType = "testTimeoutFailure"
  /\ last.details.error.message = "timed out"
  /\ Contains(out, "Test timed out after 0ms.")

\* C34: when the failure of a test is on record at the end of the stream and
\* the headline is written, the headline says FAILED and not PASSED, whatever
\* the test:summary events said and also when there was none.  The code reads
\* the success flag alone, which is true from the constructor on and is
\* written by test:summary only.
C34_FailedWhenFailuresOnRecord ==
  (phase = "flushed" /\ Truthy(currentFile) /\ Len(failures) > 0)
  => /\ Contains(out, "FAILED")
     /\ ~Contains(out, "PASSED")

\* C35: when the failure map is not empty at the end of the stream, the
\* summary holds the blocks 'Failed tests:' and 'Files with failures:' and
\* not the message that no test ran, also when no test:start of a test came
\* before the failures.  The code decides on the current file first, which
\* only a test:start sets.
C35_FailureBlocksWheneverFailuresOnRecord ==
  (phase = "flushed" /\ Len(failures) > 0)
  => /\ Contains(out, "Failed tests:\n")
     /\ Contains(out, "Files with failures:\n")
     /\ ~Contains(out, "No tests to run")

\* C36: every file of which a test:fail was rendered, be it the failure of a
\* test or of the file itself, has its entry in the block 'Files with
\* failures:' of the summary that follows the headline.  The failure of a file is rendered and never
\* put on record, so the block, built from the records, cannot show it.
C36_EveryFailingFileIsListed ==
  (phase = "flushed" /\ Truthy(currentFile) /\ shownFailing # {})
  => /\ Contains(out, "Files with failures:\n")
     /\ \A file \in shownFailing :
          Contains(From(out, IndexOf(out, "Files with failures:\n")), FileEntry(file))

\* the sentence of the headline: the summary up to the blocks of the
\* failures, or up to the two line feeds that end it
HeadlineSentence ==
  LET blocks == "\n\n" \o colors.red \o colors.bold \o symbols.fail \o "Failed tests:\n"
  IN IF Contains(out, blocks)
     THEN SubSeq(out, 1, IndexOf(out, blocks) - 1)
     ELSE SubSeq(out, 1, Len(out) - 2)

\* C37: the sentence of the headline ends with a full stop, whatever the
\* counters of the skipped, todo and cancelled tests are.  With todo > 0 and
\* neither a skipped nor a cancelled test the code appends neither the
\* parenthesis nor the full stop.
C37_HeadlineEndsWithFullStop ==
  (phase = "flushed" /\ Truthy(currentFile))
  => EndsWith(HeadlineSentence, ".")

\* C38: the headline holds the parenthesis '(including N TODO)' exactly when
\* the counter of the todo tests is above 0, and its wording follows from
\* that counter alone: N is the counter and the word is TODO for one test
\* and TODOs for more, whatever the counter of the passed tests is.  The
\* code takes the plural from the counter of the passed tests.
C38_TodoClauseFollowsTodoCounter ==
  (phase = "flushed" /\ Truthy(currentFile))
  => LET todo == counters["todo"]
         word == IF StrictEquals(todo, Num(1)) THEN "TODO" ELSE "TODOs"
     IN /\ Contains(out, "(including ") <=> Gt(todo, Zero)
        /\ Gt(todo, Zero)
             => Contains(out, " (including " \o colors.bold \o NumberToString(todo) \o " "
                                \o word \o colors.normal \o ") passing out of ")

\* C39: the number of files that the headline tells after 'over' is at least
\* the number of the files whose header was shown, also when the tests of a
\* file start without a test:enqueue of the file.  The current file is set
\* exactly when a header was shown (C29), so the number is at least 1 in
\* every summary with a headline.  The code counts the files of the
\* test:enqueue events only.
C39_FilesCountCoversHeaders ==
  (phase = "flushed" /\ Truthy(currentFile))
  => /\ Cardinality(files) >= 1
     /\ ~Contains(out, " over " \o colors.bold \o "0 file")

\* C40: the stack holds the names of the tests that the source has started
\* and not ended: the end of the test on top of the stack takes its name off,
\* and at the end of a stream in which every test that started has ended the
\* stack is empty.  A test:pass or test:fail that meets an empty stack is
\* rendered and leaves the stack empty.
C40_StackHoldsRunningTests ==
  /\ phase # "aborted" => executing = running
  /\ ( /\ last.type \in { "test:pass", "test:fail" }
       /\ ~FileLevel(last)
       /\ Len(before.executing) > 0 )
     => before.executing = Append(executing, before.executing[Len(before.executing)])
  /\ (phase = "flushed" /\ running = << >>) => executing = << >>
  /\ ( /\ last.type \in { "test:pass", "test:fail" }
       /\ ~FileLevel(last)
       /\ before.executing = << >> )
     => /\ phase = "open"
        /\ executing = << >>
        /\ Contains(out, last.name)

\* C40 witness: test a and its subtest b started, b ended, a ended, and the
\* stream has ended
C40_Witness ==
  /\ phase = "flushed"
  /\ started
  /\ running = << >>
  /\ executing = << >>
  /\ nesting = 0
  /\ currentFile = F1

\* C40 second witness: the end of a test met an empty stack
C40_EmptyStackWitness ==
  /\ last.type = "test:pass"
  /\ last.name = "b"
  /\ before.executing = << >>
  /\ executing = << >>
  /\ phase = "open"

====
